---- MODULE Spec2Model ----
(***************************************************************************)
(* VideoSpeak job orchestration.                                           *)
(*                                                                         *)
(* Two job registries exist in the repository, each behind its own router: *)
(*   - JobManager (services/JobManager.ts) driven by routes/api.ts, whose  *)
(*     POST /process-video calls createJob and then processVideoAsync;     *)
(*   - VideoSpeakService (services/VideoSpeakService.ts) driven by the     *)
(*     enhanced router, whose processVideo starts processVideoJob.         *)
(* A deployment uses one of them; the variable "service" records which.    *)
(*                                                                         *)
(* Scheduling is Node's: a handler or timer callback runs to its first     *)
(* suspension on I/O; continuations of already resolved promises           *)
(* (microtasks) run before the next handler.                               *)
(***************************************************************************)
EXTENDS Integers, Sequences, FiniteSets, TLC

\* ---------------------------------------------------------------- bounds
MaxJobs == 2        \* jobs submitted in one behaviour of Spec
GateJobs == 6       \* jobs submitted in one behaviour of SpecGate or SpecQueue
CleanupJobs == 2    \* jobs submitted in one behaviour of SpecCleanup
MaxTicks == 2       \* clock ticks in one behaviour of SpecCleanup
MaxAttemptsOption == 4  \* largest maxAttempts a caller of executeWithRetry passes
MaxWords == 2       \* words of the longest generated text whose quality is computed
MaxTextLen == 4     \* characters of the longest generated text that is split
MaxChunkArg == 3    \* largest maxChunkSize such a text is split with
MaxStarts == 2      \* calls of JobStatusPoller.startPolling in one behaviour
MaxInFlight == 2    \* requests of one startPolling call awaiting their answer
MaxMerged == 3      \* chunks in the longest list given to mergeChunks

\* ------------------------------------------------------------- constants
maxConcurrentJobs == 5
\* period of the cleanup timer and age beyond which a finished job is swept (ms)
CleanupInterval == 3600000
RetentionMs == 3600000

PENDING == "pending"
PROCESSING == "processing"
COMPLETED == "completed"
FAILED == "failed"

VALIDATING_URL == "validating_url"
EXTRACTING_AUDIO == "extracting_audio"
TRANSCRIBING == "transcribing"
TRANSLATING == "translating"
STAGE_COMPLETED == "completed"

JobStatus == {PENDING, PROCESSING, COMPLETED, FAILED}
ProcessingStage ==
  {VALIDATING_URL, EXTRACTING_AUDIO, TRANSCRIBING, TRANSLATING, STAGE_COMPLETED}

\* an optional field that is not set
Undefined == "undefined"
\* the ProcessingResults object built by a pipeline
Results == "results"
\* the three error messages a job can carry
CancelledError == "Job cancelled by user"
ShutdownError == "Server shutdown"
StageError == "stage failed"

JobManagerService == "JobManager"
VideoSpeakServiceName == "VideoSpeakService"

VARIABLES
  service,          \* which registry the deployed router uses
  jobs,             \* JobManager.jobs : id -> ProcessingJob
  processingQueue,  \* JobManager.processingQueue
  pc,               \* position of processVideoAsync for each id
  vsJobs,           \* VideoSpeakService.jobs : id -> ProcessingJob
  vsPc,             \* position of processVideoJob for each id
  nextId,           \* ids handed out so far + 1 (uuidv4 / job_<time>_<rand>)
  call,             \* the last call made and what it returned (for a
                    \* pipeline step: whether the awaited call returned)
  cancelled,        \* id -> status the job had when cancelJob returned true
  now,              \* Date.now(), in ms since the JobManager was constructed
  retry,            \* one call of RetryManager.executeWithRetry
  router,           \* one call of EnhancedTranslationService.translateText
  translation,      \* one call of TranslationService.translateText
  chunker,          \* one call of TextChunking / LLMTranslationAdapter
  quality,          \* one call of calculateQualityMetrics and isLowAccuracy
  poller            \* the client's JobStatusPoller and its requests in flight

vars ==
  <<service, jobs, processingQueue, pc, vsJobs, vsPc, nextId, call, cancelled,
    now, retry, router, translation, chunker, quality, poller>>
jmVars == <<jobs, processingQueue, pc, cancelled>>
vsVars == <<vsJobs, vsPc>>
\* what the job handlers read but never write
auxVars == <<translation, chunker, quality, poller>>
envVars == <<now, retry, router, auxVars>>

Range(s) == {s[i] : i \in DOMAIN s}

\* ------------------------------------------------------------ JobManager

\* the defaults of createJob, before the caller's jobData is spread over them
NewJob ==
  [videoUrl |-> "url", status |-> PENDING, progress |-> 0,
   currentStage |-> VALIDATING_URL, results |-> Undefined, error |-> Undefined,
   updatedAt |-> now]

\* jobData of a caller that passes only videoUrl and targetLanguage
PlainJobData == [videoUrl |-> "url"]
\* jobData passed by POST /process-video
RouteJobData ==
  [videoUrl |-> "url", status |-> PENDING, progress |-> 0,
   currentStage |-> VALIDATING_URL, updatedAt |-> now]

\* updateJob: {...job, ...updates, updatedAt: new Date()}; null (no change)
\* for an unknown id
updateJob(js, jobId, updates) ==
  IF jobId \notin DOMAIN js THEN js
  ELSE [js EXCEPT ![jobId] = [updatedAt |-> now] @@ updates @@ js[jobId]]

\* no continuation of an awaited createJob is waiting to run: the route's
\* call of processVideoAsync is a microtask, and request handlers, timers and
\* collaborator results are only delivered once it has run
Idle == \A j \in DOMAIN pc : pc[j] # "start"

\* createJob(jobData); pipeline = "start" when the caller is the route, which
\* calls processVideoAsync as soon as the awaited createJob resumes
\* (jobData.id || uuidv4(): every caller passes a fresh id or none, so the
\* id is the next unused one; ids therefore grow in submission order)
createJob(jobData, pipeline, limit) ==
  /\ service = JobManagerService
  /\ Idle
  /\ nextId <= limit
  /\ LET id == nextId
         job == jobData @@ NewJob
     IN /\ jobs' = (id :> job) @@ jobs
        /\ processingQueue' = Append(processingQueue, id)
        /\ pc' = (id :> pipeline) @@ pc
        /\ call' = [op |-> "createJob", id |-> id, ret |-> TRUE]
  /\ nextId' = nextId + 1
  /\ UNCHANGED <<service, cancelled, vsVars, envVars>>

\* cancelJob without the splice: the id stays in the queue
RemoveFromQueueKeep(q, jobId) == q

\* indexOf + splice(queueIndex, 1): drop the first occurrence of jobId
RemoveFromQueue(q, jobId) ==
  IF jobId \notin Range(q) THEN q
  ELSE LET queueIndex == CHOOSE i \in DOMAIN q :
                            /\ q[i] = jobId
                            /\ \A k \in 1..(i - 1) : q[k] # jobId
       IN SubSeq(q, 1, queueIndex - 1) \o SubSeq(q, queueIndex + 1, Len(q))

\* what cancelJob writes to the job
CancelUpdate == [status |-> FAILED, error |-> CancelledError]

\* cancelJob without the terminal-status check on Completed
CancellableAny(job) == job.status \in {PENDING, PROCESSING, COMPLETED}

\* the jobs cancelJob accepts
Cancellable(job) == job.status \in {PENDING, PROCESSING}

\* cancelJob(jobId), for known and unknown ids
cancelJob(jobId) ==
  /\ service = JobManagerService
  /\ Idle
  /\ IF jobId \in DOMAIN jobs /\ Cancellable(jobs[jobId])
     THEN /\ jobs' = updateJob(jobs, jobId, CancelUpdate)
          /\ processingQueue' = RemoveFromQueue(processingQueue, jobId)
          /\ cancelled' = (jobId :> jobs[jobId].status) @@ cancelled
          /\ call' = [op |-> "cancelJob", id |-> jobId, ret |-> TRUE]
     ELSE /\ UNCHANGED <<jobs, processingQueue, cancelled>>
          /\ call' = [op |-> "cancelJob", id |-> jobId, ret |-> FALSE]
  /\ UNCHANGED <<service, pc, nextId, vsVars, envVars>>

\* what processNextJob writes to the job it admits
AdmitUpdate ==
  [status |-> PROCESSING, currentStage |-> VALIDATING_URL, progress |-> 5]

\* the number of jobs in Processing
ActiveJobs(js) == Cardinality({j \in DOMAIN js : js[j].status = PROCESSING})

\* pop() in place of shift(): the newest id is taken
NextInQueueLast(q) == q[Len(q)]

\* the id processNextJob takes from the queue
NextInQueue(q) == Head(q)
\* a take that leaves the id in the queue
QueueAfterTakeKeep(q) == q

\* the queue after processNextJob took that id
QueueAfterTake(q) == Tail(q)

\* processNextJob, as called by the 5 second interval of startProcessing
processNextJob ==
  /\ service = JobManagerService
  /\ Idle
  /\ IF ActiveJobs(jobs) >= maxConcurrentJobs \/ Len(processingQueue) = 0
     THEN /\ UNCHANGED <<jobs, processingQueue>>
          /\ call' = [op |-> "processNextJob", id |-> 0, ret |-> FALSE]
     ELSE LET jobId == NextInQueue(processingQueue) IN
          /\ processingQueue' = QueueAfterTake(processingQueue)
          /\ IF jobId \notin DOMAIN jobs \/ jobs[jobId].status # PENDING
             THEN /\ UNCHANGED jobs
                  /\ call' = [op |-> "processNextJob", id |-> 0, ret |-> FALSE]
             ELSE /\ jobs' = updateJob(jobs, jobId, AdmitUpdate)
                  /\ call' = [op |-> "processNextJob", id |-> jobId, ret |-> TRUE]
  /\ UNCHANGED <<service, pc, nextId, cancelled, vsVars, envVars>>

\* shutdown that forgets the Processing jobs
ShutdownTargetsPendingOnly(js) == {j \in DOMAIN js : js[j].status = PENDING}

\* the jobs shutdown marks as failed
ShutdownTargets(js) == {j \in DOMAIN js : js[j].status \in {PENDING, PROCESSING}}

\* shutdown: edits the job objects in place; the queue is left as it is
shutdown ==
  /\ service = JobManagerService
  /\ Idle
  /\ jobs' = [j \in DOMAIN jobs |->
                IF j \in ShutdownTargets(jobs)
                THEN [jobs[j] EXCEPT !.status = FAILED, !.error = ShutdownError,
                                     !.updatedAt = now]
                ELSE jobs[j]]
  /\ call' = [op |-> "shutdown", id |-> 0, ret |-> TRUE]
  /\ UNCHANGED <<service, processingQueue, pc, nextId, cancelled, vsVars, envVars>>

\* a sweep that looks at the age only
ExpiredAnyStatus(job, cutoffTime) == job.updatedAt < cutoffTime

\* the test cleanupOldJobs applies to each job
Expired(job, cutoffTime) ==
  /\ job.status \in {COMPLETED, FAILED}
  /\ job.updatedAt < cutoffTime

\* cleanupOldJobs, as called by the hourly interval set in the constructor:
\* deletes the expired entries of the map; the queue is left as it is
cleanupOldJobs ==
  /\ service = JobManagerService
  /\ Idle
  /\ now > 0
  /\ now % CleanupInterval = 0
  /\ LET cutoffTime == now - RetentionMs
         cleaned == {j \in DOMAIN jobs : Expired(jobs[j], cutoffTime)}
     IN /\ jobs' = [j \in DOMAIN jobs \ cleaned |-> jobs[j]]
        /\ call' = [op |-> "cleanupOldJobs", id |-> 0, ret |-> cleaned # {}]
  /\ UNCHANGED <<service, processingQueue, pc, nextId, cancelled, vsVars, envVars>>

\* time passes while no handler runs; the clock is observed once per period
\* of the cleanup timer
Tick ==
  /\ Idle
  /\ now < MaxTicks * CleanupInterval
  /\ now' = now + CleanupInterval
  /\ call' = [op |-> "tick", id |-> 0, ret |-> TRUE]
  /\ UNCHANGED <<service, jmVars, vsVars, nextId, retry, router, auxVars>>

\* ------------------------------------------- routes/api.ts processVideoAsync

\* the updates processVideoAsync passes to updateJob, in order
ExtractingUpdate ==
  [status |-> PROCESSING, currentStage |-> EXTRACTING_AUDIO, progress |-> 10]
\* a transcribing update that reports less progress than the one before it
TranscribingUpdateLow == [currentStage |-> TRANSCRIBING, progress |-> 4]
TranscribingUpdate == [currentStage |-> TRANSCRIBING, progress |-> 40]
TranslatingUpdate == [currentStage |-> TRANSLATING, progress |-> 70]
CompletedUpdate ==
  [status |-> COMPLETED, currentStage |-> STAGE_COMPLETED, progress |-> 100,
   results |-> Results]
\* the update of the catch block, after one that records no message
FailedUpdateNoMessage == [status |-> FAILED, error |-> ""]
FailedUpdate == [status |-> FAILED, error |-> StageError]

\* one step of processVideoAsync for job j: the awaited call returned (ok) or
\* threw, and the pipeline runs to its next await
PipelineStep(j, from, to, update, ok) ==
  /\ service = JobManagerService
  /\ j \in DOMAIN pc
  /\ pc[j] = from
  /\ from # "start" => Idle
  /\ IF ok
     THEN /\ jobs' = updateJob(jobs, j, update)
          /\ pc' = [pc EXCEPT ![j] = to]
     ELSE /\ jobs' = updateJob(jobs, j, FailedUpdate)
          /\ pc' = [pc EXCEPT ![j] = "done"]
  /\ call' = [op |-> "updateJob", id |-> j, ret |-> ok]
  /\ UNCHANGED <<service, processingQueue, nextId, cancelled, vsVars, envVars>>

\* the first updateJob, run when the route resumes after createJob
processVideoAsyncStart(j) ==
  PipelineStep(j, "start", "extract", ExtractingUpdate, TRUE)
\* extractVideoId, getVideoMetadata and extractAudio returned or threw
processVideoAsyncExtract(j, ok) ==
  PipelineStep(j, "extract", "transcribe", TranscribingUpdate, ok)
\* transcribeAudio returned a text, or threw or returned none
processVideoAsyncTranscribe(j, ok) ==
  PipelineStep(j, "transcribe", "translate", TranslatingUpdate, ok)
\* translateText returned or threw
processVideoAsyncTranslate(j, ok) ==
  PipelineStep(j, "translate", "done", CompletedUpdate, ok)

\* ------------------------------------------------------ VideoSpeakService

\* the job object processVideo stores
NewVsJob ==
  [videoUrl |-> "url", status |-> PENDING, progress |-> 0,
   currentStage |-> VALIDATING_URL, results |-> Undefined, error |-> Undefined,
   updatedAt |-> now]

\* updateJobStatus: status, progress, stage and updatedAt are always written;
\* error and results only when the argument is truthy
updateJobStatus(js, jobId, status, progress, currentStage, error, results) ==
  IF jobId \notin DOMAIN js THEN js
  ELSE [js EXCEPT ![jobId] =
          [@ EXCEPT !.status = status,
                    !.progress = progress,
                    !.currentStage = currentStage,
                    !.updatedAt = now,
                    !.error = IF error # Undefined /\ error # "" THEN error ELSE @,
                    !.results = IF results # Undefined THEN results ELSE @]]

\* the progress processVideoJob reports at each step
VsProgress(stage) ==
  CASE stage = VALIDATING_URL -> 10
    [] stage = EXTRACTING_AUDIO -> 20
    [] stage = TRANSCRIBING -> 40
    [] stage = TRANSLATING -> 60
    [] stage = STAGE_COMPLETED -> 100

\* the catch block of processVideoJob, then the .catch of processVideo on the
\* rethrown error: both write the same values
VsFail(js, jobId) ==
  LET caught == updateJobStatus(js, jobId, FAILED, 0, VALIDATING_URL,
                                StageError, Undefined)
  IN updateJobStatus(caught, jobId, FAILED, 0, VALIDATING_URL,
                     StageError, Undefined)

\* processVideo: stores the job and calls processVideoJob, which runs up to
\* its first await (validateYouTubeUrl) before processVideo returns the id
processVideo(limit) ==
  /\ service = VideoSpeakServiceName
  /\ nextId <= limit
  /\ LET jobId == nextId
         stored == (jobId :> NewVsJob) @@ vsJobs
     IN /\ vsJobs' = updateJobStatus(stored, jobId, PROCESSING,
                                     VsProgress(VALIDATING_URL), VALIDATING_URL,
                                     Undefined, Undefined)
        /\ vsPc' = (jobId :> "validate") @@ vsPc
        /\ call' = [op |-> "processVideo", id |-> jobId, ret |-> TRUE]
  /\ nextId' = nextId + 1
  /\ UNCHANGED <<service, jmVars, envVars>>

\* one step of processVideoJob for job j: the awaited call returned (ok) or
\* threw, and the pipeline runs to its next await
VsStep(j, from, to, status, stage, results, ok) ==
  /\ service = VideoSpeakServiceName
  /\ j \in DOMAIN vsPc
  /\ vsPc[j] = from
  /\ IF ok
     THEN /\ vsJobs' = updateJobStatus(vsJobs, j, status, VsProgress(stage),
                                       stage, Undefined, results)
          /\ vsPc' = [vsPc EXCEPT ![j] = to]
     ELSE /\ vsJobs' = VsFail(vsJobs, j)
          /\ vsPc' = [vsPc EXCEPT ![j] = "done"]
  /\ call' = [op |-> "updateJobStatus", id |-> j, ret |-> ok]
  /\ UNCHANGED <<service, nextId, jmVars, envVars>>

\* validateYouTubeUrl and extractVideoId accepted the url, or not
processVideoJobValidate(j, ok) ==
  VsStep(j, "validate", "extract", PROCESSING, EXTRACTING_AUDIO, Undefined, ok)
\* extractAudio and getVideoMetadata returned or threw
processVideoJobExtract(j, ok) ==
  VsStep(j, "extract", "transcribe", PROCESSING, TRANSCRIBING, Undefined, ok)
\* transcribeAudio returned or threw
processVideoJobTranscribe(j, ok) ==
  VsStep(j, "transcribe", "translate", PROCESSING, TRANSLATING, Undefined, ok)
\* translateText returned or threw
processVideoJobTranslate(j, ok) ==
  VsStep(j, "translate", "done", COMPLETED, STAGE_COMPLETED, Results, ok)

\* ----------------------------------------------------------- utils/retry.ts

\* an error as the retry predicates see it: error.code, error.response.status
\* (0: the error has no response) and the substrings of interest that
\* error.message includes
TransportCodes == {"ECONNRESET", "ENOTFOUND", "ETIMEDOUT"}
ErrorCodes == TransportCodes \cup {"none", "EPIPE"}
Statuses == {0, 400, 401, 403, 404, 422, 429, 500, 503}
Markers ==
  TransportCodes \cup {"private", "not found", "Invalid audio", "No audio"}
Errors ==
  {[code |-> c, status |-> st, message |-> {}] :
     c \in ErrorCodes, st \in Statuses}
  \cup {[code |-> "none", status |-> 0, message |-> {m}] : m \in Markers}
\* the value of lastError before any invocation failed
UndefinedError == [code |-> Undefined, status |-> 0, message |-> {}]

\* error.message.includes(s)
Includes(message, sub) == sub \in message

DefaultRetryCondition(error) ==
  \/ error.code \in TransportCodes
  \/ \E c \in TransportCodes : Includes(error.message, c)
  \/ error.status # 0 /\ error.status >= 500
  \/ error.status # 0 /\ error.status = 429

YoutubeRetryCondition(error) ==
  IF Includes(error.message, "private") \/ Includes(error.message, "not found")
  THEN FALSE
  ELSE error.code \in TransportCodes

TranscriptionRetryCondition(error) ==
  IF Includes(error.message, "Invalid audio")
     \/ Includes(error.message, "No audio")
  THEN FALSE
  ELSE TRUE

\* a translation predicate that forgets the 422 of validation errors
TranslationRetryConditionNo422(error) ==
  IF error.status # 0 /\ error.status \in {401, 403} THEN FALSE
  ELSE IF error.status # 0 /\ error.status = 400 THEN FALSE
  ELSE IF error.status # 0 /\ (error.status = 429 \/ error.status >= 500)
       THEN TRUE
  ELSE error.code \in TransportCodes

TranslationRetryCondition(error) ==
  IF error.status # 0 /\ error.status \in {401, 403} THEN FALSE
  ELSE IF error.status # 0 /\ error.status \in {400, 422} THEN FALSE
  ELSE IF error.status # 0 /\ (error.status = 429 \/ error.status >= 500)
       THEN TRUE
  ELSE error.code \in TransportCodes

DEFAULT_OPTIONS ==
  [maxAttempts |-> 3, baseDelay |-> 1000, maxDelay |-> 30000,
   backoffFactor |-> 2, retryCondition |-> "default"]
YOUTUBE_RETRY_CONFIG ==
  [maxAttempts |-> 2, baseDelay |-> 2000, retryCondition |-> "youtube"]
TRANSCRIPTION_RETRY_CONFIG ==
  [maxAttempts |-> 3, baseDelay |-> 1500, retryCondition |-> "transcription"]
TRANSLATION_RETRY_CONFIG ==
  [maxAttempts |-> 3, baseDelay |-> 1000, maxDelay |-> 10000,
   retryCondition |-> "translation"]
\* options of a caller that passes its own always-true predicate
CustomConditionOptions(m) == [maxAttempts |-> m, retryCondition |-> "always"]
\* options of a caller that also lowers the ceiling of the delay
LowCeilingOptions(m) ==
  [maxAttempts |-> m, maxDelay |-> 3000, retryCondition |-> "always"]

\* config.retryCondition(error)
RetryCondition(config, error) ==
  CASE config.retryCondition = "default" -> DefaultRetryCondition(error)
    [] config.retryCondition = "youtube" -> YoutubeRetryCondition(error)
    [] config.retryCondition = "transcription" ->
         TranscriptionRetryCondition(error)
    [] config.retryCondition = "translation" -> TranslationRetryCondition(error)
    [] config.retryCondition = "always" -> TRUE

\* const config = { ...DEFAULT_OPTIONS, ...options }
Config(options) == options @@ DEFAULT_OPTIONS

\* a loop that runs one attempt more than asked
LoopContinuesOneMore(attempt, config) == attempt <= config.maxAttempts + 1

\* the loop condition of executeWithRetry
LoopContinues(attempt, config) == attempt <= config.maxAttempts

\* a last-attempt test that gives up one attempt early
LastAttemptEarly(attempt, config) == attempt + 1 >= config.maxAttempts

\* attempt === config.maxAttempts
LastAttempt(attempt, config) == attempt = config.maxAttempts

\* a predicate test that never stops the loop
RejectedNever(config, error) == FALSE

\* !config.retryCondition(error)
Rejected(config, error) == ~RetryCondition(config, error)

RECURSIVE Pow(_, _)
Pow(b, n) == IF n = 0 THEN 1 ELSE b * Pow(b, n - 1)
Min(a, b) == IF a <= b THEN a ELSE b

\* a backoff delay that ignores the ceiling config.maxDelay
DelayUncapped(attempt, config) ==
  config.baseDelay * Pow(config.backoffFactor, attempt - 1)

\* the backoff delay after a failed attempt
Delay(attempt, config) ==
  Min(config.baseDelay * Pow(config.backoffFactor, attempt - 1),
      config.maxDelay)

\* the state of a call of executeWithRetry(operation, options) that has not
\* started; calls counts the invocations of operation, raised and resolved
\* are what its last invocation threw and returned
RetryCall(options) ==
  [pc |-> "idle", options |-> options, attempt |-> 0, calls |-> 0,
   raised |-> UndefinedError, resolved |-> Undefined,
   lastError |-> UndefinedError,
   returned |-> Undefined, thrown |-> UndefinedError, sleeps |-> <<>>]

\* the loop head: the next attempt is made, or the loop is over and lastError
\* is thrown
LoopHead(r, attempt) ==
  IF LoopContinues(attempt, Config(r.options))
  THEN [r EXCEPT !.pc = "calling", !.attempt = attempt]
  ELSE [r EXCEPT !.pc = "threw", !.attempt = attempt, !.thrown = r.lastError]

\* executeWithRetry is called and runs to its first await
executeWithRetry ==
  /\ retry.pc = "idle"
  /\ retry' = LoopHead(retry, 1)
  /\ UNCHANGED <<service, jmVars, vsVars, nextId, call, now, router, auxVars>>

\* the awaited operation() resolved with value v
operationReturns(v) ==
  /\ retry.pc = "calling"
  /\ retry' = [retry EXCEPT !.pc = "returned", !.calls = @ + 1,
                            !.resolved = v, !.returned = v]
  /\ UNCHANGED <<service, jmVars, vsVars, nextId, call, now, router, auxVars>>

\* the awaited operation() rejected with error: the catch block
operationThrows(error) ==
  /\ retry.pc = "calling"
  /\ LET config == Config(retry.options)
         caught == [retry EXCEPT !.calls = @ + 1, !.raised = error,
                                 !.lastError = error]
     IN retry' =
          IF \/ LastAttempt(retry.attempt, config)
             \/ Rejected(config, error)
          THEN [caught EXCEPT !.pc = "threw", !.thrown = caught.lastError]
          ELSE [caught EXCEPT !.pc = "sleeping",
                              !.sleeps = Append(@, Delay(retry.attempt, config))]
  /\ UNCHANGED <<service, jmVars, vsVars, nextId, call, now, router, auxVars>>

\* the sleep is over: attempt++ and the loop head
sleepDone ==
  /\ retry.pc = "sleeping"
  /\ retry' = LoopHead(retry, retry.attempt + 1)
  /\ UNCHANGED <<service, jmVars, vsVars, nextId, call, now, router, auxVars>>

\* ------------------------------------------- EnhancedTranslationService

LLM == "llm"
SARVAM == "sarvam"
maxRetries == 3
retryDelay == 1000
\* the longest text translateWithSarvam accepts
SarvamMaxLength == 2000

\* a text, by its length and the length of text.trim()
Texts ==
  {[length |-> 0, trimmed |-> 0], [length |-> 3, trimmed |-> 0],
   [length |-> 120, trimmed |-> 118], [length |-> 2000, trimmed |-> 2000],
   [length |-> 2001, trimmed |-> 2001]}

\* what a call of makeTranslationRequest can end with: the HTTP status of
\* the rejection, 0 for an error without response
BackendErrors == {0, 400, 401, 403, 422, 429, 500}
BackendOk == 200

EmptyTextError == "Input text cannot be empty"
TooLongError == "Input text exceeds maximum length of 2000 characters for Sarvam API"
UnsupportedLanguageError == "Unsupported target language for Sarvam API"
SarvamFailedError == "Sarvam translation failed after 3 attempts"
LLMFailedError == "LLM translation failed"

\* the TranslationResult a family returns: the family that built it and the
\* translationMethod field it carries (the result of the LLM adapter has none)
ResultOf(family) ==
  [family |-> family,
   translationMethod |-> IF family = SARVAM THEN SARVAM ELSE Undefined]
NoResult == [family |-> Undefined, translationMethod |-> Undefined]

\* a call translateText(text, targetLanguage, sourceLanguage, options) on a
\* service built with or without an LLM provider manager, before it starts;
\* families lists the calls of translateWithLLM / translateWithSarvam and how
\* each ended, backend the outcomes of the calls of makeTranslationRequest
RouterCall(text, langOk, method, defaultMethod, llmAdapter) ==
  [pc |-> "idle", text |-> text, langOk |-> langOk, method |-> method,
   defaultMethod |-> defaultMethod, llmAdapter |-> llmAdapter,
   inCatch |-> FALSE, attempt |-> 0, families |-> <<>>, backend |-> <<>>,
   delays |-> <<>>, result |-> NoResult, error |-> Undefined]

\* options?.translationMethod || this.defaultMethod
Method(r) == IF r.method # Undefined THEN r.method ELSE r.defaultMethod

\* method === TranslationMethod.LLM && this.llmAdapter
SelectsLLM(r) == Method(r) = LLM /\ r.llmAdapter

\* translateText throws error
Threw(r, error) == [r EXCEPT !.pc = "threw", !.error = error]

\* the family call in progress ended with outcome
EndFamily(r, outcome) ==
  [r EXCEPT !.families[Len(r.families)].outcome = outcome]

\* translateWithLLM / translateWithSarvam is called and runs to its first
\* await, or throws before it
CallFamily(r, family) ==
  LET called == [r EXCEPT !.families =
                    Append(@, [family |-> family, outcome |-> "running"])]
  IN IF family = LLM THEN [called EXCEPT !.pc = "llm"]
     ELSE IF r.text.length > SarvamMaxLength
          THEN Threw(EndFamily(called, "failed"), TooLongError)
     ELSE IF ~r.langOk
          THEN Threw(EndFamily(called, "failed"), UnsupportedLanguageError)
     ELSE [called EXCEPT !.pc = "sarvam", !.attempt = 1]

\* a catch block that gives up without trying the other family
CatchRethrow(r, error) == Threw(r, error)

\* the catch block of translateText
Catch(r, error) ==
  LET caught == [r EXCEPT !.inCatch = TRUE, !.pc = "catch"] IN
  IF SelectsLLM(r) THEN CallFamily(caught, SARVAM)
  ELSE IF r.llmAdapter THEN CallFamily(caught, LLM)
  ELSE Threw(caught, error)

\* a failure that is always handled by the catch block, also when it comes
\* from the fallback
FamilyFailedCascade(r, error) == Catch(EndFamily(r, "failed"), error)

\* the family call in progress threw error: into the catch block when it was
\* made in the try block, out of translateText when it was the fallback
FamilyFailed(r, error) ==
  IF r.inCatch THEN Threw(EndFamily(r, "failed"), error)
  ELSE Catch(EndFamily(r, "failed"), error)

\* the family call in progress returned
FamilyReturned(r) ==
  LET family == r.families[Len(r.families)].family
  IN [EndFamily(r, "ok") EXCEPT !.pc = "returned", !.result = ResultOf(family)]

\* the family translateText tries first
TryFirst(r) ==
  LET first == CallFamily(r, IF SelectsLLM(r) THEN LLM ELSE SARVAM)
  IN IF first.pc = "threw"
     THEN Catch([first EXCEPT !.pc = "catch", !.error = Undefined], first.error)
     ELSE first

\* translateText is called and runs to its first await
translateText ==
  /\ router.pc = "idle"
  /\ router' = IF router.text.trimmed = 0
               THEN Threw(router, EmptyTextError)
               ELSE TryFirst(router)
  /\ UNCHANGED <<service, jmVars, vsVars, nextId, call, now, retry, auxVars>>

\* makeTranslationRequest resolved
makeTranslationRequestReturns ==
  /\ router.pc = "sarvam"
  /\ router' = FamilyReturned([router EXCEPT !.backend = Append(@, BackendOk)])
  /\ UNCHANGED <<service, jmVars, vsVars, nextId, call, now, retry, auxVars>>

\* the loop of translateWithSarvam stops after this failed attempt
GivesUp(attempt, status) == attempt >= maxRetries

\* makeTranslationRequest rejected: the catch block of the retry loop
makeTranslationRequestThrows(status) ==
  /\ router.pc = "sarvam"
  /\ LET called == [router EXCEPT !.backend = Append(@, status)]
     IN router' =
          IF GivesUp(router.attempt, status)
          THEN FamilyFailed(called, SarvamFailedError)
          ELSE [called EXCEPT !.pc = "delay",
                              !.delays = Append(@, retryDelay * router.attempt)]
  /\ UNCHANGED <<service, jmVars, vsVars, nextId, call, now, retry, auxVars>>

\* the delay between two attempts is over
delayDone ==
  /\ router.pc = "delay"
  /\ router' = [router EXCEPT !.pc = "sarvam", !.attempt = @ + 1]
  /\ UNCHANGED <<service, jmVars, vsVars, nextId, call, now, retry, auxVars>>

\* llmAdapter.translateText resolved
llmAdapterReturns ==
  /\ router.pc = "llm"
  /\ router' = FamilyReturned(router)
  /\ UNCHANGED <<service, jmVars, vsVars, nextId, call, now, retry, auxVars>>

\* llmAdapter.translateText rejected
llmAdapterThrows ==
  /\ router.pc = "llm"
  /\ router' = FamilyFailed(router, LLMFailedError)
  /\ UNCHANGED <<service, jmVars, vsVars, nextId, call, now, retry, auxVars>>

\* ----------------------------------------------------------------- strings

\* A string is the sequence of its characters.
Whitespace == {" ", "\n", "\r", "\t"}
SentenceEnds == {".", "!", "?"}
Punctuation == {".", ",", "!", "?", ";", ":"}
\* the capital letters among the characters of the texts below
Capitals == {"A", "C"}

SetMin(S) == CHOOSE x \in S : \A y \in S : x <= y
SetMax(S) == CHOOSE x \in S : \A y \in S : x >= y
Max(a, b) == IF a > b THEN a ELSE b

RECURSIVE Ascending(_)
Ascending(S) ==
  IF S = {} THEN <<>> ELSE <<SetMin(S)>> \o Ascending(S \ {SetMin(S)})

\* String.prototype.trim
Trim(t) ==
  LET kept == {i \in 1..Len(t) : t[i] \notin Whitespace}
  IN IF kept = {} THEN <<>> ELSE SubSeq(t, SetMin(kept), SetMax(kept))

\* String.prototype.toLowerCase
LowerCase(c) == IF c = "A" THEN "a" ELSE IF c = "C" THEN "c" ELSE c
toLowerCase(t) == [i \in 1..Len(t) |-> LowerCase(t[i])]

\* a.includes(b)
IncludesText(a, b) ==
  \E i \in 0..(Len(a) - Len(b)) : SubSeq(a, i + 1, i + Len(b)) = b

\* t.split(/[Separators]+/): the pieces between the runs of separators, with
\* an empty piece before a leading run and after a trailing one
Split(t, Separators) ==
  LET isSep(i) == t[i] \in Separators
      starts == Ascending({i \in 1..Len(t) :
                             ~isSep(i) /\ (i = 1 \/ isSep(i - 1))})
      end(i) == SetMin({j \in i..Len(t) : j = Len(t) \/ isSep(j + 1)})
      pieces == [k \in 1..Len(starts) |-> SubSeq(t, starts[k], end(starts[k]))]
      lead == IF t = <<>> \/ isSep(1) THEN << <<>> >> ELSE <<>>
      trail == IF t # <<>> /\ isSep(Len(t)) THEN << <<>> >> ELSE <<>>
  IN lead \o pieces \o trail

\* words.join(' ')
RECURSIVE Join(_)
Join(words) ==
  IF words = <<>> THEN <<>>
  ELSE IF Len(words) = 1 THEN words[1]
  ELSE words[1] \o <<" ">> \o Join(Tail(words))

\* --------------------------------------------------- TranslationService

DemoKey == "demo-key"
LiveKey == "live-key"
UnsupportedTargetError == "Unsupported target language"
AttemptsExhaustedError == "Translation failed after 3 attempts"

\* a call of TranslationService.translateText(text, targetLanguage) on a
\* service built with sarvamApiKey, before it starts; transport lists how
\* each call of axios.post ended (BackendOk or the status of the failure)
TranslationCall(sarvamApiKey, text, langOk) ==
  [pc |-> "idle", sarvamApiKey |-> sarvamApiKey, text |-> text,
   langOk |-> langOk, attempt |-> 0, transport |-> <<>>, delays |-> <<>>,
   lastError |-> -1, result |-> NoResult, error |-> Undefined]

TranslationIdle == TranslationCall(DemoKey, [length |-> 0, trimmed |-> 0], TRUE)

\* for (...; attempt <= this.maxRetries; ...)
AttemptAllowedOneMore(attempt) == attempt <= maxRetries + 1
AttemptAllowed(attempt) == attempt <= maxRetries

\* the loop starts the iteration numbered attempt, or ends and translateText
\* throws
Iteration(t, attempt) ==
  IF AttemptAllowed(attempt)
  THEN [t EXCEPT !.pc = "request", !.attempt = attempt]
  ELSE [t EXCEPT !.pc = "threw", !.attempt = attempt,
                 !.error = AttemptsExhaustedError]

\* translateText is called and runs to its first await, or throws before it
legacyTranslateText ==
  /\ translation.pc = "idle"
  /\ translation' =
       IF translation.text.trimmed = 0
       THEN [translation EXCEPT !.pc = "threw", !.error = EmptyTextError]
       ELSE IF translation.text.length > SarvamMaxLength
       THEN [translation EXCEPT !.pc = "threw", !.error = TooLongError]
       ELSE IF ~translation.langOk
       THEN [translation EXCEPT !.pc = "threw",
                                !.error = UnsupportedTargetError]
       ELSE Iteration(translation, 1)
  /\ UNCHANGED <<service, jmVars, vsVars, nextId, call, now, retry, router,
                 chunker, quality, poller>>

\* makeTranslationRequest returns a response (in demo mode without calling
\* the transport) and translateText returns the result built from it
legacyRequestReturns ==
  /\ translation.pc = "request"
  /\ translation' =
       [translation EXCEPT
          !.pc = "returned",
          !.transport = IF translation.sarvamApiKey = DemoKey THEN @
                        ELSE Append(@, BackendOk),
          !.result = ResultOf(SARVAM)]
  /\ UNCHANGED <<service, jmVars, vsVars, nextId, call, now, retry, router,
                 chunker, quality, poller>>

\* the transport fails, or answers with a status other than 200: the catch
\* block keeps the error, waits unless this was the last attempt, and the
\* loop goes on
legacyRequestThrows(status) ==
  /\ translation.pc = "request"
  /\ translation.sarvamApiKey # DemoKey
  /\ LET failed == [translation EXCEPT !.transport = Append(@, status),
                                       !.lastError = status]
     IN translation' =
          IF translation.attempt < maxRetries
          THEN [failed EXCEPT !.pc = "delay",
                              !.delays = Append(@, retryDelay * translation.attempt)]
          ELSE Iteration(failed, translation.attempt + 1)
  /\ UNCHANGED <<service, jmVars, vsVars, nextId, call, now, retry, router,
                 chunker, quality, poller>>

\* the delay after a failed attempt is over
legacyDelayDone ==
  /\ translation.pc = "delay"
  /\ translation' = Iteration(translation, translation.attempt + 1)
  /\ UNCHANGED <<service, jmVars, vsVars, nextId, call, now, retry, router,
                 chunker, quality, poller>>

\* ------------------------------------------------- calculateQualityMetrics

\* The scores are computed by the regional services (EnhancedTranslationService
\* and TranslationService, family SARVAM) and by the LLM adapter (family LLM)
\* with the same steps and different base scores and steps.

\* Math.max(0, Math.min(100, score))
Clamp(score) == Max(0, Min(100, score))

\* text.split(/[.!?]+/).filter(s => s.trim().length > 0)
Sentences(text) ==
  SelectSeq(Split(text, SentenceEnds), LAMBDA s : Trim(s) # <<>>)

RECURSIVE TotalLength(_)
TotalLength(words) ==
  IF words = <<>> THEN 0 ELSE Len(Head(words)) + TotalLength(Tail(words))

calculateFluency(family, text) ==
  IF Trim(text) = <<>> THEN 0
  ELSE
    LET words == Split(Trim(text), Whitespace)
        n == Len(words)
        letters == TotalLength(words)
        marks == Cardinality({i \in 1..Len(text) : text[i] \in Punctuation})
        k == Len(Sentences(text))
        base == IF family = LLM THEN 85 ELSE 80
        \* avgWordLength < 3 || avgWordLength > 12
        s1 == IF letters < 3 * n \/ letters > 12 * n
              THEN base - (IF family = LLM THEN 5 ELSE 10) ELSE base
        \* punctuationRatio > 0.3
        s2 == IF 10 * marks > 3 * n
              THEN s1 - (IF family = LLM THEN 10 ELSE 15) ELSE s1
        \* avgSentenceLength >= 5 && avgSentenceLength <= 20
        s3 == IF k > 0 /\ n >= 5 * k /\ n <= 20 * k
              THEN s2 + (IF family = LLM THEN 5 ELSE 10) ELSE s2
    IN Clamp(s3)

calculateAdequacy(family, sourceText, translatedText) ==
  IF sourceText = <<>> \/ translatedText = <<>> THEN 0
  ELSE
    LET sw == Len(Split(Trim(sourceText), Whitespace))
        tw == Len(Split(Trim(translatedText), Whitespace))
        base == IF family = LLM THEN 85 ELSE 75
        \* lengthRatio in [0.7, 1.5], else below 0.5 or above 2.0
        s1 == IF 10 * tw >= 7 * sw /\ 10 * tw <= 15 * sw
              THEN base + (IF family = LLM THEN 10 ELSE 15)
              ELSE IF 2 * tw < sw \/ tw > 2 * sw
              THEN base - (IF family = LLM THEN 15 ELSE 20)
              ELSE base
        \* translatedWords.length < sourceWords.length * 0.3
        s2 == IF 10 * tw < 3 * sw
              THEN s1 - (IF family = LLM THEN 25 ELSE 30) ELSE s1
    IN Clamp(s2)

\* the score as a fraction <<numerator, denominator>>: the regional services
\* add overlapRatio * 20 to the base score
calculateSemanticSimilarity(family, sourceText, translatedText) ==
  IF sourceText = <<>> \/ translatedText = <<>> THEN <<0, 1>>
  ELSE IF toLowerCase(sourceText) = toLowerCase(translatedText) THEN <<30, 1>>
  ELSE IF family = LLM THEN <<88, 1>>
  ELSE
    LET sourceWords == Split(toLowerCase(sourceText), Whitespace)
        translatedWords == Split(toLowerCase(translatedText), Whitespace)
        commonWords ==
          {i \in 1..Len(sourceWords) :
             \E j \in 1..Len(translatedWords) :
               /\ Len(sourceWords[i]) > 3
               /\ \/ IncludesText(sourceWords[i], translatedWords[j])
                  \/ IncludesText(translatedWords[j], sourceWords[i])}
        longest == Max(Len(sourceWords), Len(translatedWords))
        numerator == 75 * longest + 20 * Cardinality(commonWords)
    IN <<Max(0, Min(100 * longest, numerator)), longest>>

calculateGrammarScore(family, text) ==
  IF Trim(text) = <<>> THEN 0
  ELSE
    LET sentences == Sentences(text)
        k == Len(sentences)
        properCapitalization ==
          Cardinality({i \in 1..k : Trim(sentences[i])[1] \in Capitals})
        base == IF family = LLM THEN 90 ELSE 80
        \* properCapitalization / sentences.length > 0.7
        s1 == IF k = 0 THEN base - 30
              ELSE IF family # LLM /\ 10 * properCapitalization > 7 * k
              THEN base + 10 ELSE base
        words == Split(text, Whitespace)
        uniqueWords == {toLowerCase(words[i]) : i \in 1..Len(words)}
        \* repetitionRatio > 0.5
        s2 == IF 2 * Cardinality(uniqueWords) < Len(words)
              THEN s1 - (IF family = LLM THEN 15 ELSE 20) ELSE s1
    IN Clamp(s2)

\* Math.round(x * 100) / 100 of x = n / d >= 0, in hundredths
Round2(n, d) == (200 * n + d) \div (2 * d)

\* Math.min(overallAccuracy + 10, 100), for overallAccuracy = n / d
ConfidenceUncapped(n, d) == n + 10 * d
Confidence(n, d) == Min(n + 10 * d, 100 * d)

\* the TranslationQualityMetrics returned, each value in hundredths
QualityMetrics(family, sourceText, translatedText) ==
  LET fluency == calculateFluency(family, translatedText)
      adequacy == calculateAdequacy(family, sourceText, translatedText)
      semanticSimilarity ==
        calculateSemanticSimilarity(family, sourceText, translatedText)
      grammarScore == calculateGrammarScore(family, translatedText)
      d == 4 * semanticSimilarity[2]
      overallAccuracy ==
        (fluency + adequacy + grammarScore) * semanticSimilarity[2]
          + semanticSimilarity[1]
  IN [overallAccuracy |-> Round2(overallAccuracy, d),
      confidenceScore |-> Round2(Confidence(overallAccuracy, d), d),
      fluency |-> Round2(fluency, 1),
      adequacy |-> Round2(adequacy, 1),
      semanticSimilarity |-> Round2(semanticSimilarity[1], semanticSimilarity[2]),
      grammarScore |-> Round2(grammarScore, 1)]

NoMetrics ==
  [overallAccuracy |-> 0, confidenceScore |-> 0, fluency |-> 0, adequacy |-> 0,
   semanticSimilarity |-> 0, grammarScore |-> 0]

\* the accuracy (in hundredths) below which a translation is reported as low
LowAccuracyThreshold == 70 * 100

\* translationResult.translationAccuracy < 70
isLowAccuracyOrEqual(translationResult) ==
  translationResult.translationAccuracy <= LowAccuracyThreshold
isLowAccuracy(translationResult) ==
  translationResult.translationAccuracy < LowAccuracyThreshold

\* a translation of sourceText by family, before its quality is computed
QualityCall(family, sourceText, translatedText) ==
  [pc |-> "idle", family |-> family, sourceText |-> sourceText,
   translatedText |-> translatedText, qualityMetrics |-> NoMetrics,
   translationAccuracy |-> 0, low |-> FALSE]

QualityIdle == QualityCall(SARVAM, <<>>, <<>>)

\* calculateQualityMetrics runs and the result takes its overallAccuracy as
\* translationAccuracy
calculateQualityMetrics ==
  /\ quality.pc = "idle"
  /\ LET metrics == QualityMetrics(quality.family, quality.sourceText,
                                   quality.translatedText)
     IN quality' = [quality EXCEPT !.pc = "measured",
                                   !.qualityMetrics = metrics,
                                   !.translationAccuracy = metrics.overallAccuracy]
  /\ UNCHANGED <<service, jmVars, vsVars, nextId, call, now, retry, router,
                 translation, chunker, poller>>

\* isLowAccuracy is called with the result
checkLowAccuracy ==
  /\ quality.pc = "measured"
  /\ quality' = [quality EXCEPT !.pc = "checked", !.low = isLowAccuracy(quality)]
  /\ UNCHANGED <<service, jmVars, vsVars, nextId, call, now, retry, router,
                 translation, chunker, poller>>

\* "abba"
WORD_ABBA ==
  <<"a", "b", "b", "a">>
\* "ab"
WORD_AB ==
  <<"a", "b">>
\* "Cab."
WORD_CAB ==
  <<"C", "a", "b", ".">>
\* " "
TEXT_BLANK ==
  <<" ">>
\* ".."
TEXT_DOTS ==
  <<".", ".">>
\* "Abba cabba abbac ab cab."
TEXT_FLUENT ==
  <<"A", "b", "b", "a", " ", "c", "a", "b", "b", "a", " ", "a", "b", "b", "a", "c", " ", "a", "b", " ", "c", "a", "b", ".">>
\* "abba abba abba abba abba"
TEXT_REPEATED ==
  <<"a", "b", "b", "a", " ", "a", "b", "b", "a", " ", "a", "b", "b", "a", " ", "a", "b", "b", "a", " ", "a", "b", "b", "a">>
\* "abba ab ab ab ab ab ab ab"
TEXT_EIGHT ==
  <<"a", "b", "b", "a", " ", "a", "b", " ", "a", "b", " ", "a", "b", " ", "a", "b", " ", "a", "b", " ", "a", "b", " ", "a", "b">>
\* "abba cab ab"
TEXT_THREE ==
  <<"a", "b", "b", "a", " ", "c", "a", "b", " ", "a", "b">>

\* the words the texts are made of
Vocabulary == {WORD_ABBA, WORD_AB, WORD_CAB}

RECURSIVE WordLists(_)
WordLists(n) ==
  IF n = 0 THEN {<<>>}
  ELSE WordLists(n - 1)
         \cup {Append(ws, w) : ws \in WordLists(n - 1), w \in Vocabulary}

\* the texts of at most MaxWords words, and texts that reach the other cases
\* of the scores
QualityTexts ==
  {Join(ws) : ws \in WordLists(MaxWords)}
    \cup {TEXT_BLANK, TEXT_DOTS, TEXT_FLUENT, TEXT_REPEATED, TEXT_EIGHT,
          TEXT_THREE}

\* ------------------------------------------------------------ TextChunking

DefaultMaxChunkSize == 1500
DefaultOverlapSize == 200
\* the longest overlap mergeChunks looks for, and the step of its search
LongestOverlap == 200
OverlapStep == 10

ParagraphDelimiters == << <<"\n", "\n">>, <<"\r", "\n", "\r", "\n">> >>
SentenceDelimiters ==
  << <<".", " ">>, <<"!", " ">>, <<"?", " ">>,
     <<".", "\n">>, <<"!", "\n">>, <<"?", "\n">> >>

\* text.substring(from, to), positions counted from 0
Substring(text, from, to) ==
  LET a == Max(0, Min(Len(text), from))
      b == Max(0, Min(Len(text), to))
  IN SubSeq(text, Min(a, b) + 1, Max(a, b))

\* text.lastIndexOf(delimiter, fromIndex)
LastIndexOf(text, delimiter, fromIndex) ==
  LET found == {p \in 0..Min(fromIndex, Len(text) - Len(delimiter)) :
                  SubSeq(text, p + 1, p + Len(delimiter)) = delimiter}
  IN IF found = {} THEN -1 ELSE SetMax(found)

\* the end of the last delimiter found in the window, or startPosition
RECURSIVE findLastOccurrence(_, _, _, _)
findLastOccurrence(text, delimiters, lastPosition, endPosition) ==
  IF delimiters = <<>> THEN lastPosition
  ELSE
    LET position == LastIndexOf(text, Head(delimiters), endPosition)
    IN findLastOccurrence(
         text, Tail(delimiters),
         IF position > lastPosition /\ position <= endPosition
         THEN position + Len(Head(delimiters)) ELSE lastPosition,
         endPosition)

\* where the chunk that starts at currentPosition ends
EndPosition(text, maxChunkSize, currentPosition) ==
  LET endPosition == Min(currentPosition + maxChunkSize, Len(text))
      paragraphBreak ==
        findLastOccurrence(text, ParagraphDelimiters, currentPosition, endPosition)
      sentenceBreak ==
        findLastOccurrence(text, SentenceDelimiters, currentPosition, endPosition)
  IN \* paragraphBreak > currentPosition + maxChunkSize / 2
     IF 2 * paragraphBreak > 2 * currentPosition + maxChunkSize
     THEN paragraphBreak
     \* sentenceBreak > currentPosition + maxChunkSize / 3
     ELSE IF 3 * sentenceBreak > 3 * currentPosition + maxChunkSize
     THEN sentenceBreak
     ELSE endPosition

\* !text || text.length <= maxChunkSize
FitsOneChunkStrictly(text, maxChunkSize) == text = <<>> \/ Len(text) < maxChunkSize
FitsOneChunk(text, maxChunkSize) == text = <<>> \/ Len(text) <= maxChunkSize

\* calculateSimilarity(a, b) >= threshold, for the threshold 0.5 that
\* mergeChunks passes
Similar(a, b) ==
  IF a = <<>> \/ b = <<>> THEN FALSE
  ELSE
    LET minLength == Min(Len(a), Len(b))
        matches == Cardinality({i \in 1..minLength :
                                  LowerCase(a[i]) = LowerCase(b[i])})
    IN 2 * matches >= minLength

\* Math.min(first.length, second.length) / 3, in thirds of a character
MaxOverlapHalf(first, second) == (3 * Min(Len(first), Len(second))) \div 2
MaxOverlap(first, second) == Min(Len(first), Len(second))

\* the loop of findOverlapSize from the overlap size o3 down: the first size
\* at which the end of first resembles the start of second, else 0; sizes
\* in thirds of a character
RECURSIVE OverlapFrom(_, _, _)
OverlapFrom(first, second, o3) ==
  IF o3 < 3 * OverlapStep THEN 0
  ELSE
    LET endOfFirst == Substring(first, (3 * Len(first) - o3) \div 3, Len(first))
        startOfSecond == Substring(second, 0, o3 \div 3)
    IN IF Similar(endOfFirst, startOfSecond) THEN o3
       ELSE OverlapFrom(first, second, o3 - 3 * OverlapStep)

findOverlapSize(first, second) ==
  OverlapFrom(first, second, Min(3 * LongestOverlap, MaxOverlap(first, second)))

\* result += currentChunk.substring(overlapSize), for each chunk after the
\* first
RECURSIVE MergeInto(_, _)
MergeInto(result, chunks) ==
  IF chunks = <<>> THEN result
  ELSE
    LET currentChunk == Head(chunks)
        overlapSize == findOverlapSize(result, currentChunk) \div 3
    IN MergeInto(result \o Substring(currentChunk, overlapSize, Len(currentChunk)),
                 Tail(chunks))

\* chunks.length <= 1 ? chunks[0] || '' : the chunks merged
MergedText(chunks) ==
  IF chunks = <<>> THEN <<>> ELSE MergeInto(Head(chunks), Tail(chunks))

LLMChunkFailedError == "LLM translation failed"
NoProviderError == "Failed to get LLM provider"

\* A call of splitIntoChunks(text, maxChunkSize, overlapSize) followed by
\* mergeChunks of its chunks (mode "split"), a call of mergeChunks(chunks)
\* (mode "merge"), or a call of LLMTranslationAdapter.translateText(text, ...,
\* options) (mode "adapter"), before it starts. sent counts the chunks handed
\* to the provider and failedAt is the one it failed on; provider tells
\* whether the provider manager has a provider to give; windowStart and cut
\* are currentPosition and endPosition of the last turn of the split loop;
\* requests lists the calls made to the provider, each with its text and
\* system prompt, and inFlight counts those that have not yet settled.
ChunkerCall(mode, text, maxChunkSize, overlapSize, chunks) ==
  [mode |-> mode, pc |-> "idle", text |-> text,
   options |-> [maxChunkSize |-> maxChunkSize, chunkOverlap |-> overlapSize],
   maxChunkSize |-> maxChunkSize, overlapSize |-> overlapSize,
   currentPosition |-> 0, chunks |-> chunks, translatedChunks |-> <<>>,
   provider |-> TRUE, sent |-> 0, failedAt |-> 0, translatedText |-> <<>>,
   translationAccuracy |-> 0, error |-> Undefined,
   windowStart |-> 0, cut |-> 0, requests |-> <<>>, inFlight |-> 0]

ChunkerIdle == ChunkerCall("split", <<>>, DefaultMaxChunkSize, DefaultOverlapSize, <<>>)

\* the system prompt of a call without chunk context, as far as chunks go
NoContextPrompt == [chunk |-> <<>>, previous |-> <<>>, following |-> <<>>]

\* PromptEngineering.createChunkContextPrompt: the chunk and the sections of
\* the contexts that are given and not empty; an argument is <<>> when
\* undefined and <<text>> otherwise
createChunkContextPrompt(chunk, previousContext, followingContext) ==
  [chunk |-> chunk,
   previous |-> IF previousContext # <<>> /\ previousContext[1] # <<>>
                THEN previousContext[1] ELSE <<>>,
   following |-> IF followingContext # <<>> /\ followingContext[1] # <<>>
                 THEN followingContext[1] ELSE <<>>]

\* a previous context taken from the source chunks
PreviousContextUntranslated(c, i) ==
  IF i > 1 THEN <<c.chunks[i - 1]>> ELSE <<>>

\* i > 0 ? translatedChunks[i - 1] : undefined, chunks counted from 1
PreviousContext(c, i) ==
  IF i > 1 THEN <<c.translatedChunks[i - 1]>> ELSE <<>>

\* i < chunks.length - 1 ? chunks[i + 1] : undefined, chunks counted from 1
FollowingContext(c, i) ==
  IF i < Len(c.chunks) THEN <<c.chunks[i + 1]>> ELSE <<>>

\* translateText calls translateChunk, which calls the provider: for the
\* whole text when there is one chunk, else for the next chunk of the loop
\* with its context prompt
IssueCall(c) ==
  LET i == c.sent + 1
      request ==
        IF Len(c.chunks) = 1
        THEN [text |-> c.text, systemPrompt |-> NoContextPrompt]
        ELSE [text |-> c.chunks[i],
              systemPrompt |->
                createChunkContextPrompt(c.chunks[i], PreviousContext(c, i),
                                         FollowingContext(c, i))]
  IN [c EXCEPT !.requests = Append(@, request), !.inFlight = @ + 1]

\* splitIntoChunks has returned: its caller goes on
AfterSplit(c) ==
  IF c.mode = "adapter" THEN IssueCall([c EXCEPT !.pc = "translating"])
  ELSE [c EXCEPT !.pc = "split"]

\* splitIntoChunks is called and returns [text], or enters its loop
StartSplit(c) ==
  IF FitsOneChunk(c.text, c.maxChunkSize)
  THEN AfterSplit([c EXCEPT !.chunks = <<c.text>>])
  ELSE [c EXCEPT !.pc = "splitting", !.currentPosition = 0, !.chunks = <<>>]

splitIntoChunks ==
  /\ chunker.mode = "split"
  /\ chunker.pc = "idle"
  /\ chunker' = StartSplit(chunker)
  /\ UNCHANGED <<service, jmVars, vsVars, nextId, call, now, retry, router,
                 translation, quality, poller>>

\* one turn of the while loop of splitIntoChunks, and its test. What a turn
\* does depends on currentPosition alone: a turn that leaves it where it was
\* below the end of the text is repeated for ever, each time pushing the same
\* chunk (pc "diverged").
splitIteration ==
  /\ chunker.pc = "splitting"
  /\ LET endPosition == EndPosition(chunker.text, chunker.maxChunkSize,
                                    chunker.currentPosition)
         chunk == Trim(Substring(chunker.text, chunker.currentPosition,
                                 endPosition))
         next == [chunker EXCEPT
                    !.chunks = Append(@, chunk),
                    !.currentPosition = Max(@, endPosition - chunker.overlapSize),
                    !.windowStart = chunker.currentPosition,
                    !.cut = endPosition]
     IN chunker' = IF next.currentPosition >= Len(chunker.text)
                   THEN AfterSplit(next)
                   ELSE IF next.currentPosition = chunker.currentPosition
                   THEN [next EXCEPT !.pc = "diverged"]
                   ELSE next
  /\ UNCHANGED <<service, jmVars, vsVars, nextId, call, now, retry, router,
                 translation, quality, poller>>

\* mergeChunks is called with the chunks splitIntoChunks returned, or with
\* the chunks of its caller
mergeChunks ==
  /\ \/ chunker.mode = "split" /\ chunker.pc = "split"
     \/ chunker.mode = "merge" /\ chunker.pc = "idle"
  /\ chunker' = [chunker EXCEPT !.pc = "merged",
                                !.translatedText = MergedText(chunker.chunks)]
  /\ UNCHANGED <<service, jmVars, vsVars, nextId, call, now, retry, router,
                 translation, quality, poller>>

\* ---------------------------------------------------- LLMTranslationAdapter

\* translateText is called: it rejects a blank text, or splits the text
adapterTranslateText ==
  /\ chunker.mode = "adapter"
  /\ chunker.pc = "idle"
  /\ chunker' =
       IF Trim(chunker.text) = <<>>
       THEN [chunker EXCEPT !.pc = "threw", !.error = EmptyTextError]
       ELSE IF ~chunker.provider
       THEN [chunker EXCEPT !.pc = "threw", !.error = NoProviderError]
       ELSE StartSplit(
              [chunker EXCEPT
                 !.maxChunkSize = IF chunker.options.maxChunkSize # 0
                                  THEN chunker.options.maxChunkSize
                                  ELSE DefaultMaxChunkSize,
                 !.overlapSize = IF chunker.options.chunkOverlap # 0
                                 THEN chunker.options.chunkOverlap
                                 ELSE DefaultOverlapSize])
  /\ UNCHANGED <<service, jmVars, vsVars, nextId, call, now, retry, router,
                 translation, quality, poller>>

\* what the provider may answer for a chunk
ProviderAnswers(chunk) == {chunk, <<"x">> \o chunk}

\* the result translateText returns once every chunk is translated
AdapterReturns(c) ==
  LET translatedText == IF Len(c.chunks) > 1 THEN MergedText(c.translatedChunks)
                        ELSE c.translatedChunks[1]
  IN [c EXCEPT
        !.pc = "returned",
        !.translatedText = translatedText,
        !.translationAccuracy =
          QualityMetrics(LLM, c.text, translatedText).overallAccuracy]

\* the provider failed on the chunk in hand: the error leaves the loop and
\* the catch block throws
ProviderFailedSkipsChunk(c) ==
  LET skipped == [c EXCEPT !.translatedChunks = Append(@, <<>>)]
  IN IF c.sent + 1 < Len(c.chunks) THEN [skipped EXCEPT !.sent = @ + 1]
     ELSE AdapterReturns([skipped EXCEPT !.sent = @ + 1])
ProviderFailed(c) ==
  [c EXCEPT !.pc = "threw", !.sent = @ + 1, !.error = LLMChunkFailedError]

\* translateChunk returns the translation of the chunk in hand
providerReturns ==
  /\ chunker.pc = "translating"
  /\ \E answer \in ProviderAnswers(IF Len(chunker.chunks) = 1 THEN chunker.text
                                   ELSE chunker.chunks[chunker.sent + 1]) :
       LET next == [chunker EXCEPT !.sent = @ + 1,
                                   !.translatedChunks = Append(@, answer),
                                   !.inFlight = @ - 1]
       IN chunker' = IF next.sent < Len(chunker.chunks) THEN IssueCall(next)
                     ELSE AdapterReturns(next)
  /\ UNCHANGED <<service, jmVars, vsVars, nextId, call, now, retry, router,
                 translation, quality, poller>>

\* translateChunk throws
providerThrows ==
  /\ chunker.pc = "translating"
  /\ chunker' = [ProviderFailed(chunker) EXCEPT !.failedAt = chunker.sent + 1,
                                                !.inFlight = @ - 1]
  /\ UNCHANGED <<service, jmVars, vsVars, nextId, call, now, retry, router,
                 translation, quality, poller>>

\* ------------------------------------------------ client: JobStatusPoller

\* A JobStatusPoller after construction. intervalId is 0 for null, else the
\* number of the startPolling call whose setInterval returned it; started
\* lists the job of each startPolling call, inFlight the requests of each
\* call that have not settled, and lastStop tells what called stopPolling
\* last since the latest startPolling and which timer it cleared.
NotStopped == [by |-> "none", call |-> 0, timer |-> 0]
PollerIdle ==
  [intervalId |-> 0, isPolling |-> FALSE, started |-> <<>>, inFlight |-> <<>>,
   updates |-> <<>>, lastStop |-> NotStopped]

PolledJobs == {"A", "B"}

\* stopPolling(): clearInterval and the two assignments
StopPolling(p) == [p EXCEPT !.intervalId = 0, !.isPolling = FALSE]

\* startPolling(jobId, ...): stops the polling in progress, polls once (the
\* request leaves) and sets the interval
startPolling(jobId) ==
  /\ Len(poller.started) < MaxStarts
  /\ LET stopped == IF poller.isPolling THEN StopPolling(poller) ELSE poller
         n == Len(poller.started) + 1
     IN poller' = [stopped EXCEPT !.isPolling = TRUE,
                                  !.started = Append(@, jobId),
                                  !.inFlight = Append(@, 1),
                                  !.intervalId = n,
                                  !.lastStop = NotStopped]
  /\ UNCHANGED <<service, jmVars, vsVars, nextId, call, now, retry, router,
                 translation, chunker, quality>>

\* the interval fires: poll() of the startPolling call that set it sends a
\* request
intervalFires ==
  /\ poller.intervalId # 0
  /\ poller.inFlight[poller.intervalId] < MaxInFlight
  /\ poller' = [poller EXCEPT !.inFlight[poller.intervalId] = @ + 1]
  /\ UNCHANGED <<service, jmVars, vsVars, nextId, call, now, retry, router,
                 translation, chunker, quality>>

\* a request of the n-th startPolling call resolves: onUpdate(status), and
\* stopPolling() when the status is completed or failed
getJobStatusReturns(n, status) ==
  /\ n \in DOMAIN poller.started
  /\ poller.inFlight[n] > 0
  /\ LET settled == [poller EXCEPT
                       !.inFlight[n] = @ - 1,
                       !.updates = <<[jobId |-> poller.started[n],
                                      status |-> status]>>]
     IN poller' =
          IF status \in {COMPLETED, FAILED}
          THEN [StopPolling(settled) EXCEPT
                  !.lastStop = [by |-> "status", call |-> n,
                                timer |-> poller.intervalId]]
          ELSE settled
  /\ UNCHANGED <<service, jmVars, vsVars, nextId, call, now, retry, router,
                 translation, chunker, quality>>

\* a request of the n-th startPolling call rejects: onError(error) and
\* stopPolling()
getJobStatusThrows(n) ==
  /\ n \in DOMAIN poller.started
  /\ poller.inFlight[n] > 0
  /\ poller' = [StopPolling([poller EXCEPT !.inFlight[n] = @ - 1]) EXCEPT
                  !.lastStop = [by |-> "error", call |-> n,
                                timer |-> poller.intervalId]]
  /\ UNCHANGED <<service, jmVars, vsVars, nextId, call, now, retry, router,
                 translation, chunker, quality>>

\* the owner of the poller calls stopPolling()
stopPolling ==
  /\ poller.started # <<>>
  /\ poller' = [StopPolling(poller) EXCEPT
                  !.lastStop = [by |-> "caller", call |-> 0,
                                timer |-> poller.intervalId]]
  /\ UNCHANGED <<service, jmVars, vsVars, nextId, call, now, retry, router,
                 translation, chunker, quality>>

\* --------------------------------------------------------- specifications

\* no job has been submitted
NoJobs ==
  /\ jobs = <<>>
  /\ processingQueue = <<>>
  /\ pc = <<>>
  /\ vsJobs = <<>>
  /\ vsPc = <<>>
  /\ nextId = 1
  /\ call = [op |-> "none", id |-> 0, ret |-> TRUE]
  /\ cancelled = <<>>
  /\ now = 0

Init ==
  /\ service \in {JobManagerService, VideoSpeakServiceName}
  /\ NoJobs
  /\ retry = RetryCall(DEFAULT_OPTIONS)
  /\ router = RouterCall([length |-> 0, trimmed |-> 0], TRUE, Undefined, LLM,
                         FALSE)
  /\ translation = TranslationIdle
  /\ chunker = ChunkerIdle
  /\ quality = QualityIdle
  /\ poller = PollerIdle

Next ==
  \/ createJob(PlainJobData, "none", MaxJobs)
  \/ createJob(RouteJobData, "start", MaxJobs)
  \/ \E j \in 1..MaxJobs : cancelJob(j)
  \/ processNextJob
  \/ shutdown
  \/ \E j \in 1..MaxJobs : processVideoAsyncStart(j)
  \/ \E j \in 1..MaxJobs, ok \in BOOLEAN : processVideoAsyncExtract(j, ok)
  \/ \E j \in 1..MaxJobs, ok \in BOOLEAN : processVideoAsyncTranscribe(j, ok)
  \/ \E j \in 1..MaxJobs, ok \in BOOLEAN : processVideoAsyncTranslate(j, ok)
  \/ processVideo(MaxJobs)
  \/ \E j \in 1..MaxJobs, ok \in BOOLEAN : processVideoJobValidate(j, ok)
  \/ \E j \in 1..MaxJobs, ok \in BOOLEAN : processVideoJobExtract(j, ok)
  \/ \E j \in 1..MaxJobs, ok \in BOOLEAN : processVideoJobTranscribe(j, ok)
  \/ \E j \in 1..MaxJobs, ok \in BOOLEAN : processVideoJobTranslate(j, ok)

Spec == Init /\ [][Next]_vars

\* The same behaviours under fair scheduling: the processNextJob interval
\* keeps firing, a continuation that can run does run, and every awaited
\* collaborator call returns or fails. Callers need not submit, cancel or
\* shut down.
Fairness ==
  /\ WF_vars(processNextJob)
  /\ \A j \in 1..MaxJobs :
       /\ WF_vars(processVideoAsyncStart(j))
       /\ WF_vars(\E ok \in BOOLEAN : processVideoAsyncExtract(j, ok))
       /\ WF_vars(\E ok \in BOOLEAN : processVideoAsyncTranscribe(j, ok))
       /\ WF_vars(\E ok \in BOOLEAN : processVideoAsyncTranslate(j, ok))
       /\ WF_vars(\E ok \in BOOLEAN : processVideoJobValidate(j, ok))
       /\ WF_vars(\E ok \in BOOLEAN : processVideoJobExtract(j, ok))
       /\ WF_vars(\E ok \in BOOLEAN : processVideoJobTranscribe(j, ok))
       /\ WF_vars(\E ok \in BOOLEAN : processVideoJobTranslate(j, ok))

SpecFair == Spec /\ Fairness

\* The gate under load: GateJobs requests to POST /process-video whose
\* collaborators all succeed, with the processNextJob interval running.
InitGate ==
  /\ Init
  /\ service = JobManagerService

NextGate ==
  \/ createJob(RouteJobData, "start", GateJobs)
  \/ processNextJob
  \/ \E j \in 1..GateJobs : processVideoAsyncStart(j)
  \/ \E j \in 1..GateJobs : processVideoAsyncExtract(j, TRUE)
  \/ \E j \in 1..GateJobs : processVideoAsyncTranscribe(j, TRUE)
  \/ \E j \in 1..GateJobs : processVideoAsyncTranslate(j, TRUE)

SpecGate == InitGate /\ [][NextGate]_vars

\* The queue of a JobManager used on its own: callers submit and cancel jobs,
\* the processNextJob interval admits them and the server may shut down.
InitQueue ==
  /\ Init
  /\ service = JobManagerService

NextQueue ==
  \/ createJob(PlainJobData, "none", GateJobs)
  \/ \E j \in 1..GateJobs : cancelJob(j)
  \/ processNextJob
  \/ shutdown

SpecQueue == InitQueue /\ [][NextQueue]_vars

\* The registry over several hours: submissions, pipelines whose collaborators
\* succeed, cancellations and the admission timer, with the clock advancing
\* and the hourly sweep running.
InitCleanup ==
  /\ Init
  /\ service = JobManagerService

NextCleanup ==
  \/ createJob(PlainJobData, "none", CleanupJobs)
  \/ createJob(RouteJobData, "start", CleanupJobs)
  \/ \E j \in 1..CleanupJobs : cancelJob(j)
  \/ processNextJob
  \/ \E j \in 1..CleanupJobs : processVideoAsyncStart(j)
  \/ \E j \in 1..CleanupJobs : processVideoAsyncExtract(j, TRUE)
  \/ \E j \in 1..CleanupJobs : processVideoAsyncTranscribe(j, TRUE)
  \/ \E j \in 1..CleanupJobs : processVideoAsyncTranslate(j, TRUE)
  \/ Tick
  \/ cleanupOldJobs

SpecCleanup == InitCleanup /\ [][NextCleanup]_vars

\* One call of executeWithRetry with each of the exported configurations and
\* with callers' own options, on an operation that returns or throws at will.
InitRetry ==
  /\ service = JobManagerService
  /\ NoJobs
  /\ router = RouterCall([length |-> 0, trimmed |-> 0], TRUE, Undefined, LLM,
                         FALSE)
  /\ translation = TranslationIdle
  /\ chunker = ChunkerIdle
  /\ quality = QualityIdle
  /\ poller = PollerIdle
  /\ \/ retry = RetryCall(DEFAULT_OPTIONS)
     \/ retry = RetryCall(YOUTUBE_RETRY_CONFIG)
     \/ retry = RetryCall(TRANSCRIPTION_RETRY_CONFIG)
     \/ retry = RetryCall(TRANSLATION_RETRY_CONFIG)
     \/ \E m \in 0..MaxAttemptsOption :
          \/ retry = RetryCall([maxAttempts |-> m])
          \/ retry = RetryCall(CustomConditionOptions(m))
          \/ retry = RetryCall(LowCeilingOptions(m))

NextRetry ==
  \/ executeWithRetry
  \/ \E v \in {"success", "other success"} : operationReturns(v)
  \/ \E error \in Errors : operationThrows(error)
  \/ sleepDone

SpecRetry == InitRetry /\ [][NextRetry]_vars

\* One call of translateText, for each text, requested method and
\* configuration of the service, with backends that answer or fail at will.
InitRouter ==
  /\ service = JobManagerService
  /\ NoJobs
  /\ retry = RetryCall(DEFAULT_OPTIONS)
  /\ translation = TranslationIdle
  /\ chunker = ChunkerIdle
  /\ quality = QualityIdle
  /\ poller = PollerIdle
  /\ \E text \in Texts, langOk \in BOOLEAN, method \in {LLM, SARVAM, Undefined},
        defaultMethod \in {LLM, SARVAM}, llmAdapter \in BOOLEAN :
       router = RouterCall(text, langOk, method, defaultMethod, llmAdapter)

NextRouter ==
  \/ translateText
  \/ makeTranslationRequestReturns
  \/ \E status \in BackendErrors : makeTranslationRequestThrows(status)
  \/ delayDone
  \/ llmAdapterReturns
  \/ llmAdapterThrows

SpecRouter == InitRouter /\ [][NextRouter]_vars

\* One call of TranslationService.translateText, for each text and key, with
\* a transport that answers or fails at will.
InitTranslation ==
  /\ service = JobManagerService
  /\ NoJobs
  /\ retry = RetryCall(DEFAULT_OPTIONS)
  /\ router = RouterCall([length |-> 0, trimmed |-> 0], TRUE, Undefined, LLM,
                         FALSE)
  /\ chunker = ChunkerIdle
  /\ quality = QualityIdle
  /\ poller = PollerIdle
  /\ \E key \in {DemoKey, LiveKey}, text \in Texts, langOk \in BOOLEAN :
       translation = TranslationCall(key, text, langOk)

NextTranslation ==
  \/ legacyTranslateText
  \/ legacyRequestReturns
  \/ \E status \in BackendErrors : legacyRequestThrows(status)
  \/ legacyDelayDone

SpecTranslation == InitTranslation /\ [][NextTranslation]_vars

\* The quality of one translation, for each pair of texts and each family,
\* and the low-accuracy check of the result.
InitQuality ==
  /\ service = JobManagerService
  /\ NoJobs
  /\ retry = RetryCall(DEFAULT_OPTIONS)
  /\ router = RouterCall([length |-> 0, trimmed |-> 0], TRUE, Undefined, LLM,
                         FALSE)
  /\ translation = TranslationIdle
  /\ chunker = ChunkerIdle
  /\ poller = PollerIdle
  /\ \E family \in {SARVAM, LLM}, sourceText \in QualityTexts,
        translatedText \in QualityTexts :
       quality = QualityCall(family, sourceText, translatedText)

NextQuality ==
  \/ calculateQualityMetrics
  \/ checkLowAccuracy

SpecQuality == InitQuality /\ [][NextQuality]_vars

\* The characters of the generated texts: a letter, a space, a full stop and
\* a line break, of which the delimiters of splitIntoChunks are made.
ChunkAlphabet == {"a", " ", ".", "\n"}

RECURSIVE TextsUpTo(_)
TextsUpTo(n) ==
  IF n = 0 THEN {<<>>}
  ELSE TextsUpTo(n - 1)
         \cup {Append(t, c) : t \in TextsUpTo(n - 1), c \in ChunkAlphabet}

ChunkTexts == TextsUpTo(MaxTextLen)

\* overlapSize: a gap, none, and an overlap
Overlaps == {-1, 0, 1}

\* the text of the end-to-end scenario: 5,000 characters
ScenarioText == [i \in 1..5000 |-> "a"]

\* the other services, idle
OthersIdle ==
  /\ service = JobManagerService
  /\ NoJobs
  /\ retry = RetryCall(DEFAULT_OPTIONS)
  /\ router = RouterCall([length |-> 0, trimmed |-> 0], TRUE, Undefined, LLM,
                         FALSE)
  /\ translation = TranslationIdle
  /\ quality = QualityIdle
  /\ poller = PollerIdle

\* One JobStatusPoller whose owner starts polling MaxStarts times and may
\* stop it, with a server that answers each request at any time with any
\* status, or not at all.
InitPoller ==
  /\ OthersIdle
  /\ chunker = ChunkerIdle

NextPoller ==
  \/ \E jobId \in PolledJobs : startPolling(jobId)
  \/ intervalFires
  \/ \E n \in 1..MaxStarts, status \in {PENDING, PROCESSING, COMPLETED, FAILED} :
       getJobStatusReturns(n, status)
  \/ \E n \in 1..MaxStarts : getJobStatusThrows(n)
  \/ stopPolling

SpecPoller == InitPoller /\ [][NextPoller]_vars

\* One call of splitIntoChunks, for each generated text, chunk size and
\* overlap and for the scenario, and mergeChunks of what it returns.
InitSplit ==
  /\ OthersIdle
  /\ \/ \E text \in ChunkTexts, maxChunkSize \in 1..MaxChunkArg,
           overlapSize \in Overlaps :
          chunker = ChunkerCall("split", text, maxChunkSize, overlapSize, <<>>)
     \/ \E overlapSize \in {0, DefaultOverlapSize} :
          chunker = ChunkerCall("split", ScenarioText, DefaultMaxChunkSize,
                                overlapSize, <<>>)

NextSplit ==
  \/ splitIntoChunks
  \/ splitIteration
  \/ mergeChunks

SpecSplit == InitSplit /\ [][NextSplit]_vars

\* translated chunks as mergeChunks receives them: long enough for an
\* overlap to be looked for (30 characters and more), alike or not, and
\* shorter ones
CHUNK_A40 == [i \in 1..40 |-> "a"]
CHUNK_B40 == [i \in 1..40 |-> "b"]
CHUNK_AB45 == [i \in 1..45 |-> IF i % 2 = 1 THEN "a" ELSE "b"]
CHUNK_AB40 == [i \in 1..40 |-> IF i % 2 = 1 THEN "a" ELSE "b"]
CHUNK_A630 == [i \in 1..630 |-> "a"]
CHUNK_A3 == <<"a", "a", "a">>

MergeSamples ==
  {<<>>, CHUNK_A3, CHUNK_A40, CHUNK_B40, CHUNK_AB40, CHUNK_AB45, CHUNK_A630}

RECURSIVE ChunkLists(_)
ChunkLists(n) ==
  IF n = 0 THEN {<<>>}
  ELSE ChunkLists(n - 1)
         \cup {Append(cs, c) : cs \in ChunkLists(n - 1), c \in MergeSamples}

\* One call of mergeChunks, for each list of at most MaxMerged chunks.
InitMerge ==
  /\ OthersIdle
  /\ \E chunks \in ChunkLists(MaxMerged) :
       chunker = ChunkerCall("merge", <<>>, DefaultMaxChunkSize,
                             DefaultOverlapSize, chunks)

NextMerge == mergeChunks

SpecMerge == InitMerge /\ [][NextMerge]_vars

\* a text of more chunks than the generated ones
TEXT_SEVEN == [i \in 1..7 |-> "a"]

\* One call of LLMTranslationAdapter.translateText, for each generated text
\* and each maxChunkSize and chunkOverlap option (0: not given), with a
\* provider that answers or fails at will.
InitAdapter ==
  /\ OthersIdle
  /\ \E text \in ChunkTexts \cup {TEXT_SEVEN}, maxChunkSize \in 0..MaxChunkArg,
        chunkOverlap \in Overlaps, provider \in BOOLEAN :
       chunker = [ChunkerCall("adapter", text, maxChunkSize, chunkOverlap, <<>>)
                    EXCEPT !.provider = provider]

NextAdapter ==
  \/ adapterTranslateText
  \/ splitIteration
  \/ providerReturns
  \/ providerThrows

SpecAdapter == InitAdapter /\ [][NextAdapter]_vars

\* ------------------------------------------------------------- properties

Active == {PENDING, PROCESSING}
Terminal == {COMPLETED, FAILED}

\* the moves of status that the data model allows
StatusAdvance(a, b) ==
  \/ a = b
  \/ <<a, b>> \in {<<PENDING, PROCESSING>>, <<PENDING, FAILED>>,
                   <<PROCESSING, COMPLETED>>, <<PROCESSING, FAILED>>}

\* C1: in every step, each job's status stays as it is or moves
\* Pending -> Processing, Pending -> Failed, Processing -> Completed or
\* Processing -> Failed; a Completed or Failed job keeps its status.
C1_StatusOnlyAdvances ==
  [][/\ \A j \in DOMAIN jobs \cap DOMAIN jobs' :
          StatusAdvance(jobs[j].status, jobs'[j].status)
     /\ \A j \in DOMAIN vsJobs \cap DOMAIN vsJobs' :
          StatusAdvance(vsJobs[j].status, vsJobs'[j].status)]_vars

\* C2: at most maxConcurrentJobs jobs are Processing at any instant.
C2_AtMostMaxProcessing == ActiveJobs(jobs) <= maxConcurrentJobs

\* a job record that respects "one result XOR one error"
ResultXorError(job) ==
  /\ ~(job.results # Undefined /\ job.error # Undefined)
  /\ job.status = COMPLETED => job.results # Undefined /\ job.error = Undefined
  /\ job.status = FAILED => job.error # Undefined /\ job.results = Undefined

\* C3: no job holds both a result and an error; a Completed job has a result
\* and no error, a Failed job has an error and no result.
C3_ResultXorError ==
  /\ \A j \in DOMAIN jobs : ResultXorError(jobs[j])
  /\ \A j \in DOMAIN vsJobs : ResultXorError(vsJobs[j])

\* C4: cancelJob on a Pending or Processing job returns true, leaves the job
\* Failed with 'Job cancelled by user' and takes its id out of the queue; no
\* later processNextJob admits a job that was cancelled.
C4_CancelActiveJob ==
  [][/\ (/\ call'.op = "cancelJob"
         /\ call'.id \in DOMAIN jobs
         /\ jobs[call'.id].status \in Active)
        => /\ call'.ret = TRUE
           /\ jobs'[call'.id].status = FAILED
           /\ jobs'[call'.id].error = CancelledError
           /\ call'.id \notin Range(processingQueue')
     /\ \A j \in DOMAIN cancelled :
          ~(call'.op = "processNextJob" /\ call'.id = j)]_vars

\* a Pending job that waited in the queue behind another was cancelled
C4_Witness ==
  /\ call.op = "cancelJob"
  /\ call.ret = TRUE
  /\ call.id \in DOMAIN cancelled
  /\ cancelled[call.id] = PENDING
  /\ jobs[call.id].status = FAILED
  /\ jobs[call.id].error = CancelledError
  /\ Len(processingQueue) > 0

\* C5: cancelJob on a Completed or Failed job, or on an unknown id, returns
\* false and changes neither a job record nor the queue.
C5_CancelTerminalOrUnknown ==
  [][(/\ call'.op = "cancelJob"
      /\ \/ call'.id \notin DOMAIN jobs
         \/ jobs[call'.id].status \in Terminal)
     => /\ call'.ret = FALSE
        /\ jobs' = jobs
        /\ processingQueue' = processingQueue]_vars

\* cancelJob was refused for a Completed job
C5_Witness ==
  /\ call.op = "cancelJob"
  /\ call.ret = FALSE
  /\ call.id \in DOMAIN jobs
  /\ jobs[call.id].status = COMPLETED
  /\ jobs[call.id].results = Results

\* C6: once cancelJob has returned true for a Processing job, the job's
\* pipeline issues no further collaborator call and the job record is not
\* written again.
C6_CancelStopsPipeline ==
  [][\A j \in DOMAIN cancelled :
       cancelled[j] = PROCESSING
       => /\ j \in DOMAIN jobs /\ j \in DOMAIN jobs' => jobs'[j] = jobs[j]
          /\ pc'[j] \in {pc[j], "done"}]_vars

\* C7: right after shutdown no job is Pending or Processing; the jobs that
\* were are Failed with 'Server shutdown'; Completed and Failed jobs are
\* as they were.
C7_ShutdownFailsActiveJobs ==
  [][call'.op = "shutdown"
     => /\ DOMAIN jobs' = DOMAIN jobs
        /\ \A j \in DOMAIN jobs :
             /\ jobs'[j].status \notin Active
             /\ jobs[j].status \in Active
                => jobs'[j].status = FAILED /\ jobs'[j].error = ShutdownError
             /\ jobs[j].status \in Terminal => jobs'[j] = jobs[j]]_vars

\* shutdown failed a Processing job and left a Completed one alone
C7_Witness ==
  /\ call.op = "shutdown"
  /\ \E j \in DOMAIN jobs :
       /\ jobs[j].error = ShutdownError
       /\ jobs[j].status = FAILED
       /\ jobs[j].progress >= 5
  /\ \E k \in DOMAIN jobs : jobs[k].status = COMPLETED

\* C8: when createJob or processVideo returns, the new job is Pending with
\* progress 0, and createJob has put its id at the end of the queue.
C8_SubmitReturnsPending ==
  [][/\ call'.op = "createJob"
        => /\ jobs'[call'.id].status = PENDING
           /\ jobs'[call'.id].progress = 0
           /\ Len(processingQueue') > 0
           /\ processingQueue'[Len(processingQueue')] = call'.id
     /\ call'.op = "processVideo"
        => /\ vsJobs'[call'.id].status = PENDING
           /\ vsJobs'[call'.id].progress = 0]_vars

\* C9: processNextJob admits in submission order: when it admits job b, no
\* job submitted before b is still in the queue.
C9_AdmitsInSubmissionOrder ==
  [][\A b \in DOMAIN jobs :
       (call'.op = "processNextJob" /\ call'.id = b)
       => \A a \in 1..(b - 1) : a \notin Range(processingQueue)]_vars

\* the second job submitted was admitted, with the first one admitted before
C9_Witness ==
  /\ call.op = "processNextJob"
  /\ call.id = 2
  /\ jobs[2].status = PROCESSING
  /\ jobs[1].status = PROCESSING
  /\ jobs[1].progress = 5

\* C10: a Processing job's progress lies in 0..100, and an update that leaves
\* the job Processing does not lower it.
ProgressKept(js, js2) ==
  \A j \in DOMAIN js2 :
    js2[j].status = PROCESSING
    => /\ js2[j].progress \in 0..100
       /\ (j \in DOMAIN js /\ js[j].status = PROCESSING)
          => js2[j].progress >= js[j].progress

C10_ProgressWhileProcessing ==
  [][ProgressKept(jobs, jobs') /\ ProgressKept(vsJobs, vsJobs')]_vars

\* a pipeline has taken a Processing job through three updates
C10_Witness ==
  \E j \in DOMAIN jobs :
    /\ jobs[j].status = PROCESSING
    /\ jobs[j].currentStage = TRANSLATING
    /\ jobs[j].progress = 70

\* the place of a stage in the pipeline's order
StageRank(stage) ==
  CASE stage = VALIDATING_URL -> 1
    [] stage = EXTRACTING_AUDIO -> 2
    [] stage = TRANSCRIBING -> 3
    [] stage = TRANSLATING -> 4
    [] stage = STAGE_COMPLETED -> 5

StageAndProgressKept(js, js2) ==
  \A j \in DOMAIN js \cap DOMAIN js2 :
    /\ StageRank(js2[j].currentStage) >= StageRank(js[j].currentStage)
    /\ js2[j].progress >= js[j].progress

\* C11: no update of a job moves its stage to an earlier one or lowers its
\* progress, at any point of the job's life.
C11_StageAndProgressMonotone ==
  [][StageAndProgressKept(jobs, jobs')
     /\ StageAndProgressKept(vsJobs, vsJobs')]_vars

\* a pipeline step of job j whose awaited call threw
StageFailed(j) ==
  /\ call'.op \in {"updateJob", "updateJobStatus"}
  /\ call'.id = j
  /\ call'.ret = FALSE

\* a job record as a failed pipeline must leave it
FailedWithMessage(job) ==
  /\ job.status = FAILED
  /\ job.error \notin {Undefined, ""}
  /\ job.results = Undefined

\* C13: when a stage of a job's pipeline fails, the job is Failed with a
\* non-empty error and no result, its pipeline is over, and neither the job
\* nor the pipeline changes afterwards.
C13_StageFailureFailsJob ==
  [][/\ \A j \in DOMAIN jobs :
          /\ StageFailed(j) => FailedWithMessage(jobs'[j]) /\ pc'[j] = "done"
          /\ (pc[j] = "done" /\ jobs[j].status = FAILED)
             => pc'[j] = "done" /\ jobs'[j] = jobs[j]
     /\ \A j \in DOMAIN vsJobs :
          /\ StageFailed(j) => FailedWithMessage(vsJobs'[j]) /\ vsPc'[j] = "done"
          /\ (vsPc[j] = "done" /\ vsJobs[j].status = FAILED)
             => vsPc'[j] = "done" /\ vsJobs'[j] = vsJobs[j]]_vars

\* the translation stage of a route job failed after the earlier stages passed
C13_Witness ==
  /\ call.op = "updateJob"
  /\ call.ret = FALSE
  /\ pc[call.id] = "done"
  /\ jobs[call.id].status = FAILED
  /\ jobs[call.id].error = StageError
  /\ jobs[call.id].currentStage = TRANSLATING

\* C12: a sweep removes exactly the Completed or Failed jobs last updated more
\* than one hour ago (so no Pending or Processing job and no younger finished
\* job) and leaves every job that remains as it was.
C12_CleanupRemovesOldTerminalJobs ==
  [][call'.op = "cleanupOldJobs" =>
       LET old == {j \in DOMAIN jobs :
                     /\ jobs[j].status \in Terminal
                     /\ now - jobs[j].updatedAt > RetentionMs}
       IN /\ DOMAIN jobs' = DOMAIN jobs \ old
          /\ \A j \in DOMAIN jobs' : jobs'[j] = jobs[j]]_vars

\* a sweep removed a job and kept an unfinished job that is older than an hour
C12_Witness ==
  /\ call.op = "cleanupOldJobs"
  /\ call.ret = TRUE
  /\ \E j \in DOMAIN jobs :
       /\ jobs[j].status \in Active
       /\ now - jobs[j].updatedAt > RetentionMs

\* the operation threw in this step
OperationThrew == retry.pc = "calling" /\ retry'.pc \in {"threw", "sleeping"}
\* the operation returned in this step
OperationReturned == retry.pc = "calling" /\ retry'.pc = "returned"

\* C14: after a failure accepted by retryCondition that leaves the number of
\* invocations below maxAttempts, the operation is invoked again; when an
\* invocation succeeds, executeWithRetry returns its value and invokes
\* nothing more, so k failures and a success are exactly k+1 invocations.
C14_RetriesUntilSuccess ==
  [][LET config == Config(retry.options) IN
     /\ (/\ OperationThrew
         /\ RetryCondition(config, retry'.raised)
         /\ retry'.calls < config.maxAttempts)
        => retry'.pc = "sleeping"
     /\ retry.pc = "sleeping"
        => retry'.pc = "calling" /\ retry'.calls = retry.calls
     /\ OperationReturned
        => /\ retry'.returned = retry'.resolved
           /\ retry'.calls = retry.calls + 1
     /\ retry.pc = "returned" => retry' = retry]_vars

\* two retryable failures, then a success on the third invocation, with the
\* default maxAttempts 3
C14_Witness ==
  /\ retry.pc = "returned"
  /\ Config(retry.options).maxAttempts = 3
  /\ Config(retry.options).retryCondition = "default"
  /\ retry.calls = 3
  /\ Len(retry.sleeps) = 2
  /\ retry.returned = "success"

\* C15: when the operation fails with an error that retryCondition rejects,
\* executeWithRetry throws that error at once, without a sleep, and invokes
\* nothing more, however many attempts remain.
C15_RejectedErrorStopsAtOnce ==
  [][LET config == Config(retry.options) IN
     /\ (OperationThrew /\ ~RetryCondition(config, retry'.raised))
        => /\ retry'.pc = "threw"
           /\ retry'.thrown = retry'.raised
           /\ retry'.sleeps = retry.sleeps
     /\ retry.pc = "threw" => retry' = retry]_vars

\* a 404 on the first of four allowed attempts
C15_Witness ==
  /\ retry.pc = "threw"
  /\ Config(retry.options).maxAttempts = 4
  /\ retry.calls = 1
  /\ retry.thrown.status = 404
  /\ retry.sleeps = <<>>

\* C16: the operation is never invoked more than maxAttempts times, and when
\* the invocation number maxAttempts fails, executeWithRetry throws the error
\* of that invocation.
C16_AtMostMaxAttempts ==
  [][LET config == Config(retry.options) IN
     /\ retry'.calls <= config.maxAttempts
     /\ (OperationThrew /\ retry'.calls = config.maxAttempts)
        => retry'.pc = "threw" /\ retry'.thrown = retry'.raised]_vars

\* four invocations failed with retryable errors under maxAttempts 4
C16_Witness ==
  /\ retry.pc = "threw"
  /\ Config(retry.options).maxAttempts = 4
  /\ retry.calls = 4
  /\ Len(retry.sleeps) = 3
  /\ RetryCondition(Config(retry.options), retry.thrown)

\* C17: under TRANSLATION_RETRY_CONFIG an error with status 401, 403, 400 or
\* 422 is never retried, one with status 429 or at least 500 is retried, and
\* one without a response is retried exactly when its code is ECONNRESET,
\* ENOTFOUND or ETIMEDOUT (while attempts remain).
C17_TranslationRetryPredicate ==
  [][(/\ OperationThrew
      /\ Config(retry.options).retryCondition = "translation"
      /\ retry'.calls < Config(retry.options).maxAttempts)
     => LET error == retry'.raised
            retried == retry'.pc = "sleeping"
        IN /\ error.status \in {401, 403, 400, 422} => ~retried
           /\ (error.status = 429 \/ error.status >= 500) => retried
           /\ error.status = 0
              => (retried <=> error.code \in {"ECONNRESET", "ENOTFOUND",
                                             "ETIMEDOUT"})]_vars

\* a 401 that also carries a transport code was not retried
C17_Witness ==
  /\ retry.pc = "threw"
  /\ Config(retry.options).retryCondition = "translation"
  /\ retry.calls = 1
  /\ retry.raised.status = 401
  /\ retry.raised.code = "ECONNRESET"

\* C18: a regional backend call that fails with status 401, 403, 400 or 422
\* is not followed by another backend call in the same request: every backend
\* failure that was followed by a retry is a 429, a 5xx or a transport error.
C18_ClientErrorsNotRetried ==
  \A i \in 1..(Len(router.backend) - 1) :
    router.backend[i] \notin {401, 403, 400, 422}

\* translateText has returned or thrown
RouterDone(r) == r.pc \in {"returned", "threw"}
\* the family translateText resolves the preference to
Preferred(r) ==
  IF (IF r.method # Undefined THEN r.method ELSE r.defaultMethod) = LLM
     /\ r.llmAdapter
  THEN LLM ELSE SARVAM
\* the number of calls of a family in one request
FamilyCalls(r, family) ==
  Cardinality({i \in DOMAIN r.families : r.families[i].family = family})

AtMostOneFallback(r) ==
  /\ FamilyCalls(r, LLM) <= 1
  /\ FamilyCalls(r, SARVAM) <= 1
  /\ Len(r.families) >= 1 => r.families[1].family = Preferred(r)
  /\ Len(r.families) >= 2 => r.families[1].outcome = "failed"
  /\ RouterDone(r) => \A i \in DOMAIN r.families : r.families[i].outcome # "running"

\* C19: in one request each family is called at most once, the first call is
\* the preferred family's, the other family is called only once that call
\* has failed, and nothing is called after translateText has ended.
C19_AtMostOneFallback ==
  [][/\ AtMostOneFallback(router')
     /\ RouterDone(router) => router' = router]_vars

\* the regional backend failed after its attempts, then the LLM fallback failed
C19_Witness ==
  /\ router.pc = "threw"
  /\ Len(router.families) = 2
  /\ router.families[1] = [family |-> SARVAM, outcome |-> "failed"]
  /\ router.families[2] = [family |-> LLM, outcome |-> "failed"]
  /\ Len(router.backend) = maxRetries

\* what translateText must end with, given how the family calls ended
ReturnsPreferredElseFallback(r) ==
  LET n == Len(r.families)
      failed(i) == i <= n /\ r.families[i].outcome = "failed"
      ok(i) == i <= n /\ r.families[i].outcome = "ok"
  IN /\ ok(1) => /\ r.pc = "returned"
                 /\ r.result = ResultOf(Preferred(r))
                 /\ n = 1
     /\ (failed(1) /\ ok(2))
        => r.pc = "returned" /\ r.result = ResultOf(r.families[2].family)
     /\ r.pc = "threw"
        <=> \/ failed(1) /\ failed(2)
            \/ failed(1) /\ ~r.llmAdapter

\* C20 (as stated): translateText returns the preferred family's result when
\* that call succeeds, the fallback's when the preferred fails and the
\* fallback succeeds, and throws exactly when both fail or the preferred
\* fails and no fallback is configured.
C20_FailsExactlyWhenFamiliesFail ==
  RouterDone(router) => ReturnsPreferredElseFallback(router)

\* C20 (amended): the same, for a text that is not empty or blank.
C20_NonEmptyTextResult ==
  (RouterDone(router) /\ router.text.trimmed > 0)
  => ReturnsPreferredElseFallback(router)

\* the preferred LLM call failed and the regional fallback's result came back
C20_Witness ==
  /\ router.pc = "returned"
  /\ router.text.trimmed > 0
  /\ Len(router.families) = 2
  /\ router.families[1] = [family |-> LLM, outcome |-> "failed"]
  /\ router.result = ResultOf(SARVAM)

ConfigurationError == "LLM translation adapter is not initialized"

\* C21: when the LLM family is preferred and the service has no LLM adapter,
\* translateText throws a configuration error and the regional family is
\* never called in its place.
C21_UnresolvedPreferenceIsAnError ==
  (/\ router.pc # "idle"
   /\ (IF router.method # Undefined THEN router.method
       ELSE router.defaultMethod) = LLM
   /\ ~router.llmAdapter)
  => /\ router.pc = "threw"
     /\ router.families = <<>>
     /\ router.text.trimmed > 0 => router.error = ConfigurationError

\* C27: every result translateText returns carries the translationMethod of
\* the family that produced it, fallback results included.
C27_ResultNamesItsFamily ==
  router.pc = "returned" => router.result.translationMethod = router.result.family

\* C28: TranslationService.translateText calls the transport at most 3
\* times; it returns the response of call k after exactly k calls of which
\* the first k-1 failed, and after 3 failed calls it throws 'Translation
\* failed after 3 attempts' and makes no further call.
FailedCalls(t) == {i \in 1..Len(t.transport) : t.transport[i] # BackendOk}

C30_LowExactlyBelow70 ==
  quality.pc = "checked"
    => (quality.low <=> quality.qualityMetrics.overallAccuracy < 7000)

C30_Witness ==
  /\ quality.pc = "checked"
  /\ quality.qualityMetrics.overallAccuracy = 7000
  /\ ~quality.low

\* C29: each of the six reported scores lies in [0,100], overallAccuracy is
\* the unweighted mean of the four reported sub-scores, and confidenceScore
\* equals min(overallAccuracy + 10, 100).
SubScoreSum(m) == m.fluency + m.adequacy + m.semanticSimilarity + m.grammarScore

ScoresInRange(m) ==
  \A score \in {m.fluency, m.adequacy, m.semanticSimilarity, m.grammarScore,
                m.overallAccuracy, m.confidenceScore} :
    score >= 0 /\ score <= 10000

ConfidenceIsBoostedAccuracy(m) ==
  m.confidenceScore =
    (IF m.overallAccuracy + 1000 <= 10000 THEN m.overallAccuracy + 1000
     ELSE 10000)

C29_OverallIsMeanOfSubScores ==
  quality.pc # "idle" =>
    LET m == quality.qualityMetrics
    IN /\ ScoresInRange(m)
       /\ 4 * m.overallAccuracy = SubScoreSum(m)
       /\ ConfidenceIsBoostedAccuracy(m)

\* C29, amended: the reported overallAccuracy is the mean of the sub-scores
\* taken before they are rounded and then rounded to two decimals, so it lies
\* within 0.005 of the mean of the four reported sub-scores.
C29_OverallIsRoundedMean ==
  quality.pc # "idle" =>
    LET m == quality.qualityMetrics
    IN /\ ScoresInRange(m)
       /\ 4 * m.overallAccuracy - SubScoreSum(m) \in -2..2
       /\ ConfidenceIsBoostedAccuracy(m)

C29_Witness ==
  /\ quality.pc = "measured"
  /\ quality.family = SARVAM
  /\ quality.qualityMetrics.semanticSimilarity = 8167
  /\ 4 * quality.qualityMetrics.overallAccuracy
       # SubScoreSum(quality.qualityMetrics)

\* C23: for every text no longer than maxChunkSize, the empty text included,
\* splitIntoChunks returns exactly one chunk, equal to the text unchanged.
C23_ShortTextIsOneChunk ==
  (/\ chunker.mode = "split"
   /\ chunker.pc # "idle"
   /\ Len(chunker.text) <= chunker.maxChunkSize)
  => /\ chunker.pc \in {"split", "merged"}
     /\ chunker.chunks = <<chunker.text>>

C23_Witness ==
  /\ chunker.mode = "split"
  /\ chunker.pc = "split"
  /\ chunker.text = <<" ", "a", " ">>
  /\ chunker.maxChunkSize = 3
  /\ chunker.chunks = <<chunker.text>>

\* C24: splitIntoChunks terminates on every input: it returns a finite list
\* of chunks that reaches the end of the text, also for a text longer than
\* maxChunkSize with an overlapSize above 0 (5,000 characters with
\* maxChunkSize 1500 and overlapSize 200 give at least 4 chunks).
C24_SplitTerminates ==
  /\ chunker.pc # "diverged"
  /\ (chunker.pc \in {"split", "merged"} /\ chunker.text = ScenarioText)
       => Len(chunker.chunks) >= 4

\* C25: when splitIntoChunks returns, merging its chunks unchanged gives a
\* text whose length differs from the length of the original text by at most
\* (n - 1) * overlapSize, for n chunks.
C25_MergedLengthWithinOverlaps ==
  (chunker.mode = "split" /\ chunker.pc = "merged")
  => LET difference == Len(chunker.translatedText) - Len(chunker.text)
         overlaps == (Len(chunker.chunks) - 1) * chunker.overlapSize
     IN difference <= overlaps /\ -difference <= overlaps

\* C26: mergeChunks keeps the first chunk whole and of each later chunk all
\* but at most min(200, a third of its length) leading characters, and the
\* kept parts follow each other in the result in the order of the chunks.
RECURSIVE KeptInOrder(_, _)
KeptInOrder(rest, chunks) ==
  IF chunks = <<>> THEN rest = <<>>
  ELSE
    LET chunk == Head(chunks)
    IN \E dropped \in 0..(IF Len(chunk) \div 3 < 200 THEN Len(chunk) \div 3
                          ELSE 200) :
         LET kept == SubSeq(chunk, dropped + 1, Len(chunk))
         IN /\ Len(kept) <= Len(rest)
            /\ SubSeq(rest, 1, Len(kept)) = kept
            /\ KeptInOrder(SubSeq(rest, Len(kept) + 1, Len(rest)), Tail(chunks))

C26_MergeOmitsNoChunk ==
  (chunker.mode = "merge" /\ chunker.pc = "merged")
  => IF chunker.chunks = <<>> THEN chunker.translatedText = <<>>
     ELSE LET first == Head(chunker.chunks)
              result == chunker.translatedText
          IN /\ Len(first) <= Len(result)
             /\ SubSeq(result, 1, Len(first)) = first
             /\ KeptInOrder(SubSeq(result, Len(first) + 1, Len(result)),
                            Tail(chunker.chunks))

C26_Witness ==
  /\ chunker.mode = "merge"
  /\ chunker.pc = "merged"
  /\ chunker.chunks = <<CHUNK_A630, CHUNK_A40, CHUNK_B40>>
  /\ Len(chunker.translatedText) = 630 + 27 + 40

\* C22: when the provider fails on chunk i of a translation in several
\* chunks, no later chunk is sent to it, translateText throws, and no result
\* is built from the chunks translated before.
C22_ChunkFailureAbortsTranslation ==
  (chunker.mode = "adapter" /\ chunker.failedAt > 0)
  => /\ chunker.pc = "threw"
     /\ chunker.error = LLMChunkFailedError
     /\ chunker.sent = chunker.failedAt
     /\ Len(chunker.translatedChunks) = chunker.failedAt - 1
     /\ chunker.translatedText = <<>>
     /\ chunker.translationAccuracy = 0

C22_Witness ==
  /\ chunker.mode = "adapter"
  /\ chunker.pc = "threw"
  /\ Len(chunker.chunks) = 4
  /\ chunker.failedAt = 2
  /\ Len(chunker.translatedChunks) = 1

\* C31: the k-th sleep of a call of executeWithRetry lasts
\* min(baseDelay * backoffFactor^(k-1), maxDelay), the call sleeps once
\* between two consecutive invocations of the operation, and it does not sleep
\* after the invocation that ends it: a success, the failure of the last
\* allowed attempt or an error that retryCondition rejects.
C31_SleepsBackOffBetweenAttempts ==
  LET config == Config(retry.options)
      sleeps == retry.sleeps
  IN /\ \A k \in 1..Len(sleeps) :
          sleeps[k] =
            IF config.baseDelay * Pow(config.backoffFactor, k - 1)
                 <= config.maxDelay
            THEN config.baseDelay * Pow(config.backoffFactor, k - 1)
            ELSE config.maxDelay
     /\ retry.pc \in {"calling", "sleeping"} => Len(sleeps) = retry.attempt
                                                  - (IF retry.pc = "calling"
                                                     THEN 1 ELSE 0)
     /\ retry.pc = "calling" => Len(sleeps) = retry.calls
     /\ retry.pc = "sleeping" =>
          /\ Len(sleeps) = retry.calls
          /\ retry.attempt < config.maxAttempts
          /\ RetryCondition(config, retry.raised)
     /\ retry.pc \in {"returned", "threw"} /\ retry.calls > 0 =>
          Len(sleeps) = retry.calls - 1
     /\ retry.pc = "threw" /\ retry.calls = 0 => sleeps = <<>>

\* a call slept three times and the third sleep was cut to the ceiling
C31_Witness ==
  /\ retry.pc = "sleeping"
  /\ Len(retry.sleeps) = 3
  /\ retry.sleeps[3] = Config(retry.options).maxDelay
  /\ retry.sleeps[2] < retry.sleeps[3]

\* C38: a call of executeWithRetry that is over invoked the operation at
\* least once, and when it threw, it threw the error of its last invocation
\* of the operation, which is not undefined.
C38_InvokesOnceAndThrowsItsError ==
  retry.pc \in {"returned", "threw"} =>
    /\ retry.calls >= 1
    /\ retry.pc = "threw" =>
         /\ retry.thrown = retry.raised
         /\ retry.thrown # UndefinedError

\* C35: a call of processNextJob changes neither the queue nor the registry
\* when the queue is empty or maxConcurrentJobs jobs are Processing; otherwise
\* it removes the head id from the queue and nothing else, writes Processing,
\* the validating stage and progress 5 to that job when it is Pending, and
\* leaves every other job record as it was.
C35_ProcessNextJobFrame ==
  [][processNextJob =>
       IF ActiveJobs(jobs) >= maxConcurrentJobs \/ processingQueue = <<>>
       THEN UNCHANGED <<jobs, processingQueue, pc>>
       ELSE LET jobId == Head(processingQueue) IN
            /\ processingQueue' = Tail(processingQueue)
            /\ DOMAIN jobs' = DOMAIN jobs
            /\ \A j \in DOMAIN jobs \ {jobId} : jobs'[j] = jobs[j]
            /\ jobId \in DOMAIN jobs /\ jobs[jobId].status = PENDING =>
                 /\ jobs'[jobId].status = PROCESSING
                 /\ jobs'[jobId].currentStage = VALIDATING_URL
                 /\ jobs'[jobId].progress = 5
            /\ UNCHANGED pc]_vars

\* processNextJob admitted the job that filled the last free slot, with
\* another job still waiting in the queue
C35_Witness ==
  /\ call.op = "processNextJob"
  /\ call.ret
  /\ jobs[call.id].status = PROCESSING
  /\ jobs[call.id].progress = 5
  /\ call.id \notin Range(processingQueue)
  /\ ActiveJobs(jobs) = maxConcurrentJobs
  /\ processingQueue # <<>>

\* C36: every id in the processing queue occurs there once and names a job
\* of the registry whose status is Pending, and the length of the queue
\* (getJobStats().queueLength) is the number of Pending jobs.
C36_QueueHoldsThePendingJobs ==
  /\ \A i, k \in DOMAIN processingQueue :
       processingQueue[i] = processingQueue[k] => i = k
  /\ \A i \in DOMAIN processingQueue :
       /\ processingQueue[i] \in DOMAIN jobs
       /\ jobs[processingQueue[i]].status = PENDING
  /\ Len(processingQueue) =
       Cardinality({j \in DOMAIN jobs : jobs[j].status = PENDING})

\* the ends of the occurrences of the delimiters that lie in the window
\* from..to of the text
BreakEnds(text, delimiters, from, to) ==
  {e \in from..to :
     \E d \in DOMAIN delimiters :
       /\ e - Len(delimiters[d]) >= from
       /\ SubSeq(text, e - Len(delimiters[d]) + 1, e) = delimiters[d]}

\* the cut of the window that starts at from: the last paragraph break past
\* half of maxChunkSize, else the last sentence break past a third of it,
\* else the end of the window
CutOfWindow(text, maxChunkSize, from) ==
  LET to == Min(from + maxChunkSize, Len(text))
      paragraphs == BreakEnds(text, ParagraphDelimiters, from, to)
      sentences == BreakEnds(text, SentenceDelimiters, from, to)
  IN IF paragraphs # {} /\ 2 * SetMax(paragraphs) > 2 * from + maxChunkSize
     THEN SetMax(paragraphs)
     ELSE IF sentences # {} /\ 3 * SetMax(sentences) > 3 * from + maxChunkSize
     THEN SetMax(sentences)
     ELSE to

\* C33: every turn of the split loop cuts its window at the end of the last
\* paragraph break in the window when that lies past half of maxChunkSize from
\* the window start, else at the end of the last sentence break in the window
\* when that lies past a third of maxChunkSize, else at the window boundary.
C33_CutPrefersParagraphThenSentence ==
  chunker.mode = "split" /\ chunker.cut > 0 =>
    chunker.cut =
      CutOfWindow(chunker.text, chunker.maxChunkSize, chunker.windowStart)

\* the candidate overlap lengths for an accumulator and a chunk, in thirds of
\* a character: min(200, len/3) and each 10 smaller, not below 10, where len
\* is the length of the shorter of the two
Candidates(first, second) ==
  LET largest == Min(3 * LongestOverlap, Min(Len(first), Len(second)))
  IN {o3 \in (3 * OverlapStep)..largest :
        (largest - o3) % (3 * OverlapStep) = 0}

\* the candidates at which at least half of the characters of the tail of
\* the accumulator equal, position by position and whatever their case, the
\* characters of the head of the chunk
Qualifying(first, second) ==
  {o3 \in Candidates(first, second) :
     LET n == o3 \div 3
     IN Similar(Substring(first, Len(first) - n, Len(first)),
                Substring(second, 0, n))}

\* the chunks appended to the accumulator one after the other, each without
\* its largest qualifying candidate, or whole when it has none
RECURSIVE AppendedWithoutOverlap(_, _)
AppendedWithoutOverlap(result, chunks) ==
  IF chunks = <<>> THEN result
  ELSE
    LET q == Qualifying(result, Head(chunks))
        dropped == IF q = {} THEN 0 ELSE SetMax(q) \div 3
    IN AppendedWithoutOverlap(
         result \o Substring(Head(chunks), dropped, Len(Head(chunks))),
         Tail(chunks))

\* C34: mergeChunks appends each chunk after the first without its largest
\* candidate overlap length, among min(200, len/3) and the lengths 10, 20, ...
\* below it down to 10, at which the tail of the accumulator and the head of
\* the chunk match in at least half of their positions, and whole when no
\* candidate qualifies.
C34_MergeDropsLargestQualifyingOverlap ==
  chunker.mode = "merge" /\ chunker.pc = "merged" /\ chunker.chunks # <<>> =>
    chunker.translatedText =
      AppendedWithoutOverlap(Head(chunker.chunks), Tail(chunker.chunks))

\* C32: in a translation of several chunks the provider is called for the
\* chunks in order, each call after the call before it has returned, so that
\* at most one call is in flight; the call for a chunk after the first carries
\* the translation of the chunk before it as previous context, and the call
\* for a chunk before the last carries the source text of the chunk after it
\* as following context.
C32_ChunksSentOneByOneWithContext ==
  chunker.mode = "adapter" /\ Len(chunker.chunks) > 1 =>
    /\ chunker.inFlight \in {0, 1}
    /\ Len(chunker.requests) <= Len(chunker.chunks)
    /\ Len(chunker.requests) - chunker.inFlight <= chunker.sent
    /\ \A k \in DOMAIN chunker.requests :
         /\ chunker.requests[k].text = chunker.chunks[k]
         /\ k > 1 =>
              /\ Len(chunker.translatedChunks) >= k - 1
              /\ chunker.requests[k].systemPrompt.previous =
                   chunker.translatedChunks[k - 1]
         /\ k < Len(chunker.chunks) =>
              chunker.requests[k].systemPrompt.following = chunker.chunks[k + 1]

\* the call for the second of four chunks is in flight, with a previous
\* context that differs from the source of the first chunk
C32_Witness ==
  /\ chunker.mode = "adapter"
  /\ chunker.pc = "translating"
  /\ Len(chunker.chunks) = 4
  /\ Len(chunker.requests) = 2
  /\ chunker.inFlight = 1
  /\ chunker.requests[2].systemPrompt.previous # chunker.chunks[1]
  /\ chunker.requests[2].systemPrompt.following # <<>>

\* C39: the polling set up by the latest call of startPolling goes on until a
\* request of that call returns completed or failed, a request of that call
\* fails, or stopPolling is called; the answer to a request of an earlier
\* call of startPolling does not end it.
C39_StaleResponseLeavesLaterPolling ==
  poller.started # <<>> =>
    \/ poller.intervalId = Len(poller.started) /\ poller.isPolling
    \/ poller.lastStop.by = "caller"
    \/ /\ poller.lastStop.by \in {"status", "error"}
       /\ poller.lastStop.call = Len(poller.started)

\* C37: under fair scheduling, with collaborators that always return or
\* fail, every job in a registry is eventually Completed or Failed; a job
\* that processNextJob moved to Processing is among them.
C37_EveryJobReachesATerminalStatus ==
  \A j \in 1..MaxJobs :
    /\ (j \in DOMAIN jobs) ~>
         (j \in DOMAIN jobs /\ jobs[j].status \in {COMPLETED, FAILED})
    /\ (j \in DOMAIN vsJobs) ~>
         (j \in DOMAIN vsJobs /\ vsJobs[j].status \in {COMPLETED, FAILED})

====
